---------------------------- MODULE Spec2Model ----------------------------
(***************************************************************************)
(* K-Sites CRISPR guide designer (k_sites/crispr_design/guide_designer.py) *)
(* as a state machine.                                                     *)
(*                                                                         *)
(* Representation.                                                         *)
(*   - A nucleotide string is a tuple of one-letter strings; Python's      *)
(*     0-based positions are kept in the data and converted on access.     *)
(*   - None is the empty tuple <<>>, a present optional value v is <<v>>.  *)
(*   - Floats are exact fixed-point integers:                              *)
(*       PAM quality            in hundredths          (PQ is 1.0)         *)
(*       raw CFD score          in units of 10^-6      (CFD == 10^6)       *)
(*       final off-target score in units of 10^-8      (CFD * PQ)          *)
(*       specificity score      in thousandths         (SPEC == 1000)      *)
(*       on-target score        a rational [num, den], den = len * 10^6    *)
(*       gc_content             a rational [num, den], den = len           *)
(*     so that every sum, product and comparison of the source is exact.   *)
(*     The one expression of the source whose binary floating-point value  *)
(*     differs from the exact one, int(abs(gc - 0.5) * 10), is modelled    *)
(*     with its floating-point outcome (see gc_deviation_term).            *)
(***************************************************************************)
EXTENDS Integers, Sequences, FiniteSets, TLC

VARIABLES
  tables,      \* the module-level tables of guide_designer.py
  designers,   \* the CRISPRDesigner instances: cas_type and pam_config
  inp,         \* per call: the arguments and the collaborators' responses
  pc,          \* per call: the stage design_guides has reached
  gene_info,   \* per call: local gene_info
  pam_sites,   \* per call: local pam_sites
  idx,         \* per call: 0-based index of the next PAM site of the loop
  guides,      \* per call: local guides
  result,      \* per call: the returned list, None until the call returns
  run,         \* per call: how many times the call has been started
  first,       \* per call: the list returned by the first run
  scored,      \* per call: the last value returned by the on-target scorer
  trace,       \* per call: the steps design_guides has taken, in order
  fn           \* a helper applied on its own: operation, arguments, value

vars == <<tables, designers, inp, pc, gene_info, pam_sites, idx, guides,
          result, run, first, scored, trace, fn>>

(***************************************************************************)
(* Bounds of the model.                                                    *)
(***************************************************************************)
\* longest gene sequence the provider returns
MaxSeqLen == 64
\* times one call is repeated with the same inputs
MaxRuns == 2
\* longest off-target list handed to the severity classifier on its own
MaxOffTargetList == 4
\* the largest set of mismatch positions a CFD score is first computed for
MaxMismatches == 2
\* the longest sequence that is reverse-complemented on its own
MaxStrandLen == 4

(***************************************************************************)
(* Units of the fixed-point values.                                        *)
(***************************************************************************)
PQ == 10^2
CFD == 10^6
SPEC == 10^3
MICRO == 10^6

Min(a, b) == IF a <= b THEN a ELSE b
Max(a, b) == IF a >= b THEN a ELSE b
Abs(a) == IF a >= 0 THEN a ELSE 0 - a

None == <<>>
Some(v) == <<v>>

\* Python s[a:b] for 0 <= a (b is clamped to len(s) as a slice is)
Slice(s, a, b) == SubSeq(s, a + 1, Min(b, Len(s)))

(***************************************************************************)
(* CasType and the module-level tables.                                    *)
(***************************************************************************)
CasType == {"SpCas9", "SaCas9", "Cas12a", "Cas9-NG", "xCas9"}

\* list(CasType): the enumeration in definition order
CasTypeList == <<"SpCas9", "SaCas9", "Cas12a", "Cas9-NG", "xCas9">>

ATCG == {"A", "T", "C", "G"}

\* A regular expression of the source is a list of alternatives, tried in
\* order; an alternative is a list of character classes.
PAM_CONFIGS ==
  [c \in CasType |->
     CASE c = "SpCas9" ->
            [pattern |-> << <<ATCG, {"G"}, {"G"}>> >>,
             rc_pattern |-> << <<{"C"}, {"C"}, ATCG>> >>,
             quality_score |-> 100, cas_type |-> c, spacer_length |-> 20,
             pam_position |-> "3prime", pam_length |-> 3]
       [] c = "SaCas9" ->
            [pattern |-> << <<ATCG, ATCG, {"G"}, {"A", "G"}, {"A", "G"}, {"T"}>> >>,
             rc_pattern |-> << <<{"A"}, {"T", "C"}, {"T", "C"}, {"C"}, ATCG, ATCG>> >>,
             quality_score |-> 90, cas_type |-> c, spacer_length |-> 21,
             pam_position |-> "3prime", pam_length |-> 6]
       [] c = "Cas12a" ->
            [pattern |-> << <<{"T"}, {"T"}, {"T"}, {"A", "C", "G"}>> >>,
             rc_pattern |-> << <<{"C", "G", "T"}, {"A"}, {"A"}, {"A"}>> >>,
             quality_score |-> 85, cas_type |-> c, spacer_length |-> 23,
             pam_position |-> "5prime", pam_length |-> 4]
       [] c = "Cas9-NG" ->
            [pattern |-> << <<ATCG, {"G"}>> >>,
             rc_pattern |-> << <<{"C"}, ATCG>> >>,
             quality_score |-> 70, cas_type |-> c, spacer_length |-> 20,
             pam_position |-> "3prime", pam_length |-> 2]
       [] c = "xCas9" ->
            [pattern |-> << <<ATCG, {"G"}>>, <<{"G"}, {"A"}, {"A", "T"}>> >>,
             rc_pattern |-> << <<{"C"}, ATCG>>, <<{"A", "T"}, {"T"}, {"C"}>> >>,
             quality_score |-> 80, cas_type |-> c, spacer_length |-> 20,
             pam_position |-> "3prime", pam_length |-> 3]]

\* weights in units of 10^-6, positions 1..20
DOENCH_POSITION_WEIGHTS ==
  <<
    [A |-> -97377, C |-> -83064, G |-> 31048, T |-> 0],
    [A |-> -94838, C |-> -88376, G |-> 40169, T |-> 0],
    [A |-> -70963, C |-> -73336, G |-> 35386, T |-> 0],
    [A |-> -43544, C |-> -63537, G |-> 32820, T |-> 0],
    [A |-> -31856, C |-> -57013, G |-> 28734, T |-> 0],
    [A |-> -27794, C |-> -46586, G |-> 22672, T |-> 0],
    [A |-> -9889, C |-> -41686, G |-> 28188, T |-> 0],
    [A |-> 7820, C |-> -37756, G |-> 21966, T |-> 0],
    [A |-> 26284, C |-> -31596, G |-> 23655, T |-> 0],
    [A |-> 23931, C |-> -29133, G |-> 21836, T |-> 0],
    [A |-> 36131, C |-> -30821, G |-> 21483, T |-> 0],
    [A |-> 41276, C |-> -28376, G |-> 27026, T |-> 0],
    [A |-> 37258, C |-> -25805, G |-> 30194, T |-> 0],
    [A |-> 30462, C |-> -23042, G |-> 29692, T |-> 0],
    [A |-> 24869, C |-> -19596, G |-> 31562, T |-> 0],
    [A |-> 19399, C |-> -16958, G |-> 24683, T |-> 0],
    [A |-> 12968, C |-> -10496, G |-> 18628, T |-> 0],
    [A |-> 12568, C |-> -7596, G |-> 12902, T |-> 0],
    [A |-> 6800, C |-> -3890, G |-> 5375, T |-> 0],
    [A |-> 3281, C |-> -1329, G |-> -25902, T |-> 0]
  >>

\* penalties in tenths, positions 1..20
CFD_MISMATCH_PENALTIES ==
  [p \in 1..20 |-> IF p >= 17 THEN 9
                   ELSE IF p >= 13 THEN 6
                   ELSE IF p >= 8 THEN 4
                   ELSE 2]

\* qualities in hundredths
PAM_QUALITY_SCORES ==
  <<"N","G","G">> :> 100 @@
  <<"A","G","G">> :> 100 @@
  <<"C","G","G">> :> 100 @@
  <<"T","G","G">> :> 100 @@
  <<"G","G","G">> :> 100 @@
  <<"N","N","G","R","R","T">> :> 90 @@
  <<"N","N","G","A","A","T">> :> 90 @@
  <<"N","N","G","A","G","T">> :> 90 @@
  <<"N","N","G","R","A","T">> :> 90 @@
  <<"N","N","G","A","R","T">> :> 90 @@
  <<"T","T","T","A">> :> 85 @@
  <<"T","T","T","C">> :> 85 @@
  <<"T","T","T","G">> :> 85 @@
  <<"G","A","A">> :> 80 @@
  <<"G","A","T">> :> 80 @@
  <<"N","A","G">> :> 30 @@
  <<"A","A","G">> :> 30 @@
  <<"C","A","G">> :> 30 @@
  <<"T","A","G">> :> 30 @@
  <<"G","A","G">> :> 30 @@
  <<"N","G","A">> :> 20 @@
  <<"A","G","A">> :> 20 @@
  <<"C","G","A">> :> 20 @@
  <<"T","G","A">> :> 20 @@
  <<"G","G","A">> :> 20

DEFAULT_PAM_QUALITY == 10

\* the module namespace the functions below read their tables from
ModuleTables ==
  [PAM_CONFIGS |-> PAM_CONFIGS,
   DOENCH_POSITION_WEIGHTS |-> DOENCH_POSITION_WEIGHTS,
   CFD_MISMATCH_PENALTIES |-> CFD_MISMATCH_PENALTIES,
   PAM_QUALITY_SCORES |-> PAM_QUALITY_SCORES]

(***************************************************************************)
(* Sequence utilities.                                                     *)
(***************************************************************************)
UpperChar(c) ==
  CASE c = "a" -> "A" [] c = "c" -> "C" [] c = "g" -> "G"
    [] c = "t" -> "T" [] c = "n" -> "N" [] OTHER -> c

\* str.upper()
upper(s) == [i \in 1..Len(s) |-> UpperChar(s[i])]

\* variant: M has no partner of its own
COMPLEMENT_keto ==
  "A" :> "T" @@ "T" :> "A" @@ "G" :> "C" @@ "C" :> "G" @@
  "N" :> "N" @@ "R" :> "Y" @@ "Y" :> "R" @@ "S" :> "S" @@
  "W" :> "W" @@ "K" :> "M" @@ "M" :> "M" @@ "B" :> "V" @@
  "V" :> "B" @@ "D" :> "H" @@ "H" :> "D"

COMPLEMENT ==
  "A" :> "T" @@ "T" :> "A" @@ "G" :> "C" @@ "C" :> "G" @@
  "N" :> "N" @@ "R" :> "Y" @@ "Y" :> "R" @@ "S" :> "S" @@
  "W" :> "W" @@ "K" :> "M" @@ "M" :> "K" @@ "B" :> "V" @@
  "V" :> "B" @@ "D" :> "H" @@ "H" :> "D"

reverse_complement(seq) ==
  LET u == upper(seq)
      n == Len(u)
  IN [i \in 1..n |->
        LET base == u[n + 1 - i]
        IN IF base \in DOMAIN COMPLEMENT THEN COMPLEMENT[base] ELSE base]

\* str.count of a one-letter string
RECURSIVE count(_, _)
count(s, ch) ==
  IF s = <<>> THEN 0
  ELSE (IF Head(s) = ch THEN 1 ELSE 0) + count(Tail(s), ch)

\* gc_count / len(sequence), 0.0 for the empty sequence
calculate_gc_content(sequence) ==
  IF sequence = <<>> THEN [num |-> 0, den |-> 1]
  ELSE LET u == upper(sequence)
       IN [num |-> count(u, "G") + count(u, "C"), den |-> Len(u)]

\* 'T' * min_run in sequence.upper()
check_poly_t(sequence, min_run) ==
  LET u == upper(sequence)
  IN \E i \in 1..(Len(u) - min_run + 1) :
        \A k \in 0..(min_run - 1) : u[i + k] = "T"

RECURSIVE max_repeat_from(_, _, _, _)
max_repeat_from(u, i, current_repeat, max_repeat) ==
  IF i > Len(u) THEN max_repeat
  ELSE IF u[i] = u[i - 1]
       THEN max_repeat_from(u, i + 1, current_repeat + 1,
                            Max(max_repeat, current_repeat + 1))
       ELSE max_repeat_from(u, i + 1, 1, max_repeat)

count_max_repeats(sequence) ==
  IF sequence = <<>> THEN 0
  ELSE max_repeat_from(upper(sequence), 2, 1, 1)

(***************************************************************************)
(* PAM quality and the on-target scorer.                                   *)
(***************************************************************************)
\* the last two characters, pam_upper[-2:]
Last2(s) == IF Len(s) >= 2 THEN SubSeq(s, Len(s) - 1, Len(s)) ELSE s

\* variant: a PAM that no rule recognises has quality 0
get_pam_quality_known(pam_seq) ==
  LET pam_upper == upper(pam_seq)
  IN IF pam_upper \in DOMAIN tables.PAM_QUALITY_SCORES
       THEN tables.PAM_QUALITY_SCORES[pam_upper]
     ELSE IF Len(pam_upper) >= 3 /\ Last2(pam_upper) = <<"G", "G">> THEN 100
     ELSE IF Len(pam_upper) >= 3 /\ Last2(pam_upper) = <<"A", "G">> THEN 30
     ELSE IF Len(pam_upper) >= 3 /\ Last2(pam_upper) = <<"G", "A">> THEN 20
     ELSE 0

get_pam_quality(pam_seq) ==
  LET pam_upper == upper(pam_seq)
  IN IF pam_upper \in DOMAIN tables.PAM_QUALITY_SCORES
       THEN tables.PAM_QUALITY_SCORES[pam_upper]
     ELSE IF Len(pam_upper) >= 3 /\ Last2(pam_upper) = <<"G", "G">> THEN 100
     ELSE IF Len(pam_upper) >= 3 /\ Last2(pam_upper) = <<"A", "G">> THEN 30
     ELSE IF Len(pam_upper) >= 3 /\ Last2(pam_upper) = <<"G", "A">> THEN 20
     ELSE DEFAULT_PAM_QUALITY

\* (matches / 8) * 0.25 in units of 10^-6
calculate_self_complementarity(sequence) ==
  LET seq == upper(sequence)
  IN IF Len(seq) < 16 THEN 0
     ELSE LET first_8 == SubSeq(seq, 1, 8)
              last_8 == SubSeq(seq, Len(seq) - 7, Len(seq))
              rc_first_8 == reverse_complement(first_8)
              matches == Cardinality({k \in 1..8 : rc_first_8[k] = last_8[k]})
          IN matches * 31250

\* the sum of the position weights of guide_seq[:20], in units of 10^-6
RECURSIVE position_weights(_, _)
position_weights(guide, i) ==
  IF i > Len(guide) \/ i > 20 THEN 0
  ELSE (IF i \in DOMAIN tables.DOENCH_POSITION_WEIGHTS
        THEN LET w == tables.DOENCH_POSITION_WEIGHTS[i]
                 nucleotide == guide[i]
             IN CASE nucleotide = "A" -> w.A [] nucleotide = "C" -> w.C
                  [] nucleotide = "G" -> w.G [] nucleotide = "T" -> w.T
                  [] OTHER -> 0
        ELSE 0)
       + position_weights(guide, i + 1)

\* variant: the PAM quality does not contribute
doench_raw_without_pam(guide_seq, pam_seq, gc_optimal) ==
  LET guide == upper(guide_seq)
      n == Len(guide)
      gc == calculate_gc_content(guide)
      gc_penalty == Abs(100 * gc.num - gc_optimal * gc.den) * 5000
      self_comp_penalty == calculate_self_complementarity(guide)
  IN n * (MICRO \div 2)
     + n * position_weights(guide, 1)
     - gc_penalty
     - n * self_comp_penalty

\* the score before clamping, in units of 1 / (len(guide_seq) * 10^6);
\* gc_optimal is in hundredths
doench_raw(guide_seq, pam_seq, gc_optimal) ==
  LET guide == upper(guide_seq)
      n == Len(guide)
      gc == calculate_gc_content(guide)
      gc_penalty == Abs(100 * gc.num - gc_optimal * gc.den) * 5000
      self_comp_penalty == calculate_self_complementarity(guide)
      pam_quality == get_pam_quality(pam_seq)
  IN n * (MICRO \div 2)
     + n * position_weights(guide, 1)
     - gc_penalty
     - n * self_comp_penalty
     + n * (pam_quality - 50) * 1000

\* variant: the lower bound is not applied
clamp_above(lo, x, hi) == Min(hi, x)
\* max(lo, min(hi, x))
clamp(lo, x, hi) == Max(lo, Min(hi, x))

calculate_doench_2016(guide_seq, pam_seq, gc_optimal) ==
  IF guide_seq = <<>> THEN [num |-> 0, den |-> MICRO]
  ELSE LET den == Len(guide_seq) * MICRO
       IN [num |-> clamp(0, doench_raw(guide_seq, pam_seq, gc_optimal), den),
           den |-> den]

(***************************************************************************)
(* PAM site scanner and guide extractor.                                   *)
(***************************************************************************)
\* does the alternative match s at 0-based offset i
alt_matches(alt, s, i) ==
  /\ i + Len(alt) <= Len(s)
  /\ \A k \in 1..Len(alt) : s[i + k] \in alt[k]

\* length of the match of the regular expression at offset i, 0 if none:
\* the first alternative that matches wins
RECURSIVE match_len(_, _, _, _)
match_len(regex, a, s, i) ==
  IF a > Len(regex) THEN 0
  ELSE IF alt_matches(regex[a], s, i) THEN Len(regex[a])
  ELSE match_len(regex, a + 1, s, i)

\* re.finditer: all non-overlapping matches, left to right
RECURSIVE finditer(_, _, _)
finditer(regex, s, i) ==
  IF i >= Len(s) THEN <<>>
  ELSE LET m == match_len(regex, 1, s, i)
       IN IF m > 0
          THEN <<[start |-> i, group |-> Slice(s, i, i + m)]>>
               \o finditer(regex, s, i + m)
          ELSE finditer(regex, s, i + 1)

\* an exon window that cannot be unpacked into (start, end, exon_num)
malformed(exon) == Len(exon) # 3

search_regions_of(sequence, exons, target_exons) ==
  IF target_exons # <<>> /\ exons # <<>>
    THEN SelectSeq(exons, LAMBDA e : \E k \in 1..Len(target_exons) :
                                        target_exons[k] = e[3])
  ELSE IF exons # <<>> THEN SubSeq(exons, 1, Min(3, Len(exons)))
  ELSE << <<0, Len(sequence), 1>> >>

\* the unpacking of a malformed window raises ValueError
find_pam_sites_raises(sequence, exons, target_exons) ==
  IF target_exons # <<>> /\ exons # <<>>
    THEN \E k \in 1..Len(exons) : malformed(exons[k])
  ELSE IF exons # <<>>
    THEN \E k \in 1..Min(3, Len(exons)) : malformed(exons[k])
  ELSE FALSE

forward_sites(self, sequence, region) ==
  LET spacer_len == self.pam_config.spacer_length
      is_5prime_pam == self.pam_config.pam_position = "5prime"
      region_seq == Slice(sequence, region[1], region[2])
      ms == finditer(self.compiled_forward_regex, region_seq, 0)
      site(m) == <<region[1] + m.start, m.group, "+", region[3]>>
      keep(m) ==
        LET absolute_pam_pos == region[1] + m.start
        IN IF is_5prime_pam
             THEN absolute_pam_pos + Len(m.group) + spacer_len <= Len(sequence)
             ELSE absolute_pam_pos - spacer_len >= 0
      kept == SelectSeq(ms, keep)
  IN [k \in 1..Len(kept) |-> site(kept[k])]

reverse_sites(self, sequence, region) ==
  LET spacer_len == self.pam_config.spacer_length
      is_5prime_pam == self.pam_config.pam_position = "5prime"
      region_seq == Slice(sequence, region[1], region[2])
      ms == finditer(self.compiled_reverse_regex, region_seq, 0)
      site(m) == <<region[1] + m.start, reverse_complement(m.group), "-",
                   region[3]>>
      keep(m) ==
        LET absolute_pam_pos == region[1] + m.start
        IN IF is_5prime_pam
             THEN absolute_pam_pos - spacer_len >= 0
             ELSE absolute_pam_pos + Len(m.group) + spacer_len <= Len(sequence)
      kept == SelectSeq(ms, keep)
  IN [k \in 1..Len(kept) |-> site(kept[k])]

RECURSIVE sites_of_regions(_, _, _, _)
sites_of_regions(self, sequence, regions, r) ==
  IF r > Len(regions) THEN <<>>
  ELSE forward_sites(self, sequence, regions[r])
       \o reverse_sites(self, sequence, regions[r])
       \o sites_of_regions(self, sequence, regions, r + 1)

\* list of (position, pam_sequence, strand, exon_number)
find_pam_sites_both_strands(self, sequence, exons, target_exons) ==
  sites_of_regions(self, sequence,
                   search_regions_of(sequence, exons, target_exons), 1)

extract_guide_sequence(self, sequence, pam_pos, strand) ==
  LET spacer_len == self.pam_config.spacer_length
      pam_len == self.pam_config.pam_length
      is_5prime_pam == self.pam_config.pam_position = "5prime"
  IN IF strand = "+"
       THEN IF is_5prime_pam
              THEN IF pam_pos + pam_len + spacer_len <= Len(sequence)
                     THEN Slice(sequence, pam_pos + pam_len,
                                pam_pos + pam_len + spacer_len)
                     ELSE <<>>
              ELSE IF pam_pos - spacer_len >= 0
                     THEN Slice(sequence, pam_pos - spacer_len, pam_pos)
                     ELSE <<>>
       ELSE IF is_5prime_pam
              THEN IF pam_pos - spacer_len >= 0
                     THEN reverse_complement(
                            Slice(sequence, pam_pos - spacer_len, pam_pos))
                     ELSE <<>>
              ELSE IF pam_pos + pam_len + spacer_len <= Len(sequence)
                     THEN reverse_complement(
                            Slice(sequence, pam_pos + pam_len,
                                  pam_pos + pam_len + spacer_len))
                     ELSE <<>>

(***************************************************************************)
(* Stable descending sort, as list.sort(key=..., reverse=True): an element *)
(* goes in front of the first element whose key is strictly smaller.  A    *)
(* key is a pair <<hi, lo>> compared lexicographically.                    *)
(***************************************************************************)
key_lt(a, b) == a[1] < b[1] \/ (a[1] = b[1] /\ a[2] < b[2])

RECURSIVE insert_desc(_, _)
insert_desc(sorted, e) ==
  IF sorted = <<>> THEN <<e>>
  ELSE IF key_lt(Head(sorted).key, e.key) THEN <<e>> \o sorted
  ELSE <<Head(sorted)>> \o insert_desc(Tail(sorted), e)

RECURSIVE sort_keyed(_, _)
sort_keyed(keyed, n) ==
  IF n = 0 THEN <<>>
  ELSE insert_desc(sort_keyed(keyed, n - 1), keyed[n])

\* items sorted by keys[i], descending, stable
sort_desc(items, keys) ==
  LET keyed == [i \in 1..Len(items) |-> [key |-> keys[i], item |-> items[i]]]
      sorted == sort_keyed(keyed, Len(keyed))
  IN [i \in 1..Len(sorted) |-> sorted[i].item]

\* sorted(positions) for a list without duplicates
RECURSIVE sort_asc(_)
sort_asc(S) ==
  IF S = {} THEN <<>>
  ELSE LET m == CHOOSE x \in S : \A y \in S : x <= y
       IN <<m>> \o sort_asc(S \ {m})

(***************************************************************************)
(* Off-target predictor.                                                   *)
(***************************************************************************)
\* int(abs(gc_content - 0.5) * 10) as binary floating point evaluates it:
\* the exact floor, except that 0.4 - 0.5, 0.6 - 0.5 and 0.7 - 0.5 round to
\* just below 0.1, 0.1 and 0.2, which loses one
gc_deviation_term(gc) ==
  LET exact == (Abs(2 * gc.num - gc.den) * 5) \div gc.den
      rounds_below == \/ 5 * gc.num = 2 * gc.den
                      \/ 5 * gc.num = 3 * gc.den
                      \/ 10 * gc.num = 7 * gc.den
  IN IF rounds_below THEN exact - 1 ELSE exact

\* variant: the second mismatch is drawn from positions 3-7, inside the range
\* of the first
distribute_position_overlapping(i, seed) ==
  IF i = 0 THEN ((seed * 3) % 7) + 1
  ELSE IF i = 1 THEN ((seed * 5) % 5) + 3
  ELSE IF i = 2 THEN ((seed * 7) % 4) + 13
  ELSE ((seed * 11) % 4) + 17

distribute_position(i, seed) ==
  IF i = 0 THEN ((seed * 3) % 7) + 1
  ELSE IF i = 1 THEN ((seed * 5) % 5) + 8
  ELSE IF i = 2 THEN ((seed * 7) % 4) + 13
  ELSE ((seed * 11) % 4) + 17

distribute_mismatches(num_mismatches, seed) ==
  sort_asc({distribute_position(i, seed) : i \in 0..(num_mismatches - 1)})

\* the product of (1 - penalty), in units of 10^-6 (exact up to 6 positions)
RECURSIVE cfd_product(_, _, _)
cfd_product(mismatch_positions, k, score) ==
  IF k > Len(mismatch_positions) THEN score
  ELSE LET pos == mismatch_positions[k]
       IN IF pos \in DOMAIN tables.CFD_MISMATCH_PENALTIES
          THEN cfd_product(mismatch_positions, k + 1,
                 (score * (10 - tables.CFD_MISMATCH_PENALTIES[pos])) \div 10)
          ELSE cfd_product(mismatch_positions, k + 1, score)

\* variant: the factor of the most penalised position alone
calculate_cfd_score_worst(mismatch_positions) ==
  IF mismatch_positions = <<>> THEN CFD
  ELSE LET factors == {cfd_product(<<mismatch_positions[k]>>, 1, CFD) :
                         k \in 1..Len(mismatch_positions)}
       IN CHOOSE f \in factors : \A g \in factors : f <= g

calculate_cfd_score(mismatch_positions) ==
  IF mismatch_positions = <<>> THEN CFD
  ELSE Max(0, cfd_product(mismatch_positions, 1, CFD))

bases == <<"A", "T", "G", "C">>

RECURSIVE mismatch_from(_, _, _)
mismatch_from(seq_list, mismatch_positions, k) ==
  IF k > Len(mismatch_positions) THEN seq_list
  ELSE LET pos == mismatch_positions[k]
       IN IF 1 <= pos /\ pos <= Len(seq_list)
          THEN LET current == seq_list[pos]
                   alternatives == SelectSeq(bases, LAMBDA b : b # current)
                   new == alternatives[(pos % Len(alternatives)) + 1]
               IN mismatch_from([seq_list EXCEPT ![pos] = new],
                                mismatch_positions, k + 1)
          ELSE mismatch_from(seq_list, mismatch_positions, k + 1)

\* variant: the replacement is drawn from all four bases, the current one
\* included
generate_mismatched_sequence_any_base(guide_seq, mismatch_positions) ==
  LET seq_list == upper(guide_seq)
      at == {mismatch_positions[k] : k \in 1..Len(mismatch_positions)}
  IN [pos \in 1..Len(seq_list) |->
        IF pos \in at THEN bases[(pos % Len(bases)) + 1] ELSE seq_list[pos]]

generate_mismatched_sequence(guide_seq, mismatch_positions) ==
  mismatch_from(upper(guide_seq), mismatch_positions, 1)

\* variant: a PAM that depends on how many times the call has been made
predict_off_target_pam_by_run(index) ==
  LET pams == << <<"N","G","G">>, <<"N","G","G">>, <<"N","A","G">>,
                 <<"N","G","G">>, <<"N","G","A">>, <<"N","G","G">> >>
  IN pams[((index + run[1]) % Len(pams)) + 1]
\* variant: the list of PAMs starts with the weak NAG
predict_off_target_pam_weak_first(index) ==
  LET pams == << <<"N","A","G">>, <<"N","G","G">>, <<"N","G","G">>,
                 <<"N","G","G">>, <<"N","G","A">>, <<"N","G","G">> >>
  IN pams[(index % Len(pams)) + 1]
\* _predict_off_target_pam
predict_off_target_pam(index) ==
  LET pams == << <<"N","G","G">>, <<"N","G","G">>, <<"N","A","G">>,
                 <<"N","G","G">>, <<"N","G","A">>, <<"N","G","G">> >>
  IN pams[(index % Len(pams)) + 1]

\* (gene_name, exon_location); the name f"GENE{k}" is the pair <<"GENE", k>>
predict_off_target_location(index, taxid) ==
  IF index % 10 = 0 THEN <<Some(<<"GENE", index>>), "exonic">>
  ELSE IF index % 3 = 0 THEN <<Some(<<"GENE", index \div 3>>), "intronic">>
  ELSE <<None, "intergenic">>

\* cfd_score in units of 10^-8
classify_off_target_severity(cfd_score, mismatches) ==
  IF cfd_score > 50 * MICRO /\ mismatches <= 2 THEN "CRITICAL"
  ELSE IF cfd_score > 30 * MICRO \/ mismatches <= 2 THEN "HIGH"
  ELSE IF cfd_score > 10 * MICRO \/ mismatches <= 3 THEN "MEDIUM"
  ELSE "LOW"

\* variant: the severity is decided on the raw CFD score
off_target_at_raw_severity(guide, taxid, max_mismatches, i) ==
  LET num_mismatches == Min((i \div 3) + 1, max_mismatches)
      mismatch_positions == distribute_mismatches(num_mismatches, i)
      cfd_score == calculate_cfd_score(mismatch_positions)
      ot_pam == predict_off_target_pam(i)
      ot_pam_quality == get_pam_quality(ot_pam)
      adjusted_cfd == cfd_score * ot_pam_quality
      location == predict_off_target_location(i, taxid)
  IN IF cfd_score < 5 * (CFD \div 100) THEN None
     ELSE Some([sequence |-> generate_mismatched_sequence(guide, mismatch_positions),
                chrom |-> <<"chr", (i % 22) + 1>>,
                position |-> 1000000 + (i * 10000),
                strand |-> IF i % 2 = 0 THEN "+" ELSE "-",
                mismatches |-> num_mismatches,
                mismatch_positions |-> mismatch_positions,
                pam_sequence |-> ot_pam,
                pam_quality |-> ot_pam_quality,
                cfd_score |-> adjusted_cfd,
                gene_name |-> location[1],
                exon_location |-> location[2],
                severity |-> classify_off_target_severity(cfd_score * PQ,
                                                          num_mismatches)])

\* the off-target built for loop index i, None when it is skipped
off_target_at(guide, taxid, max_mismatches, i) ==
  LET num_mismatches == Min((i \div 3) + 1, max_mismatches)
      mismatch_positions == distribute_mismatches(num_mismatches, i)
      cfd_score == calculate_cfd_score(mismatch_positions)
      ot_pam == predict_off_target_pam(i)
      ot_pam_quality == get_pam_quality(ot_pam)
      adjusted_cfd == cfd_score * ot_pam_quality
      location == predict_off_target_location(i, taxid)
  IN IF cfd_score < 5 * (CFD \div 100) THEN None
     ELSE Some([sequence |-> generate_mismatched_sequence(guide, mismatch_positions),
                chrom |-> <<"chr", (i % 22) + 1>>,
                position |-> 1000000 + (i * 10000),
                strand |-> IF i % 2 = 0 THEN "+" ELSE "-",
                mismatches |-> num_mismatches,
                mismatch_positions |-> mismatch_positions,
                pam_sequence |-> ot_pam,
                pam_quality |-> ot_pam_quality,
                cfd_score |-> adjusted_cfd,
                gene_name |-> location[1],
                exon_location |-> location[2],
                severity |-> classify_off_target_severity(adjusted_cfd,
                                                          num_mismatches)])

RECURSIVE off_targets_from(_, _, _, _, _)
off_targets_from(guide, taxid, max_mismatches, i, n) ==
  IF i >= n THEN <<>>
  ELSE off_target_at(guide, taxid, max_mismatches, i)
       \o off_targets_from(guide, taxid, max_mismatches, i + 1, n)

\* variant: the candidates are returned in the order of the loop
predict_off_targets_cfd_in_loop_order(guide_seq, taxid, max_mismatches, max_results) ==
  LET guide == upper(guide_seq)
      gc_content == calculate_gc_content(guide)
      repeat_count == count_max_repeats(guide)
      base_ot_count == 3 + gc_deviation_term(gc_content) + repeat_count - 2
      off_targets == off_targets_from(guide, taxid, max_mismatches, 0,
                                      Min(base_ot_count, max_results))
  IN SubSeq(off_targets, 1, Min(Len(off_targets), Max(max_results, 0)))

predict_off_targets_cfd(guide_seq, taxid, max_mismatches, max_results) ==
  LET guide == upper(guide_seq)
      gc_content == calculate_gc_content(guide)
      repeat_count == count_max_repeats(guide)
      base_ot_count == 3 + gc_deviation_term(gc_content) + repeat_count - 2
      off_targets == off_targets_from(guide, taxid, max_mismatches, 0,
                                      Min(base_ot_count, max_results))
      sorted == sort_desc(off_targets,
                          [k \in 1..Len(off_targets) |->
                             <<off_targets[k].cfd_score, 0>>])
  IN SubSeq(sorted, 1, Min(Len(sorted), Max(max_results, 0)))

(***************************************************************************)
(* Specificity, pathway conflicts, annotation and severity.                *)
(***************************************************************************)
count_severity(off_targets, sev) ==
  Cardinality({k \in 1..Len(off_targets) : off_targets[k].severity = sev})

\* variant: the severity penalty is not capped at 0.5
calculate_specificity_score_uncapped(off_targets, pam_quality) ==
  IF off_targets = <<>> THEN SPEC
  ELSE LET count_penalty == Min(400, Len(off_targets) * 30)
           severity_penalty ==
             150 * count_severity(off_targets, "CRITICAL")
             + 80 * count_severity(off_targets, "HIGH")
             + 30 * count_severity(off_targets, "MEDIUM")
           pam_bonus == pam_quality - 50
       IN clamp(0, SPEC - count_penalty - severity_penalty + pam_bonus, SPEC)
\* in thousandths; pam_quality in hundredths
calculate_specificity_score(off_targets, pam_quality) ==
  IF off_targets = <<>> THEN SPEC
  ELSE LET count_penalty == Min(400, Len(off_targets) * 30)
           severity_penalty ==
             Min(500, 150 * count_severity(off_targets, "CRITICAL")
                      + 80 * count_severity(off_targets, "HIGH")
                      + 30 * count_severity(off_targets, "MEDIUM"))
           pam_bonus == pam_quality - 50
       IN clamp(0, SPEC - count_penalty - severity_penalty + pam_bonus, SPEC)

\* str.upper() of a gene name <<word, number>>
upper_name(n) ==
  <<(CASE n[1] = "gene" -> "GENE" [] n[1] = "Gene" -> "GENE" [] OTHER -> n[1])>>
  \o Tail(n)

\* variant: a checker that is absent or fails counts as a conflict
check_pathway_conflicts_closed(pathway, off_targets, target_gene, taxid) ==
  LET pathway_neighbors ==
        {upper_name(pathway.neighbors[k]) : k \in 1..Len(pathway.neighbors)}
      in_pathway(ot) == /\ ot.gene_name # None
                        /\ upper_name(ot.gene_name[1]) \in pathway_neighbors
      hits == SelectSeq(off_targets, in_pathway)
      conflict_genes ==
        IF pathway.state = "ok"
          THEN [k \in 1..Len(hits) |-> hits[k].gene_name[1]]
          ELSE <<>>
  IN <<pathway.state # "ok" \/ Len(conflict_genes) > 0, conflict_genes>>

\* pathway is the collaborator: absent (ImportError), failing (any other
\* exception) or answering with the list of pathway neighbours
check_pathway_conflicts(pathway, off_targets, target_gene, taxid) ==
  LET pathway_neighbors ==
        {upper_name(pathway.neighbors[k]) : k \in 1..Len(pathway.neighbors)}
      in_pathway(ot) == /\ ot.gene_name # None
                        /\ upper_name(ot.gene_name[1]) \in pathway_neighbors
      hits == SelectSeq(off_targets, in_pathway)
      conflict_genes ==
        IF pathway.state = "ok"
          THEN [k \in 1..Len(hits) |-> hits[k].gene_name[1]]
          ELSE <<>>
  IN <<Len(conflict_genes) > 0, conflict_genes>>

\* index of the first window whose number is exon_num, 0 if none
RECURSIVE exon_index(_, _, _)
exon_index(exons, exon_num, k) ==
  IF k > Len(exons) THEN 0
  ELSE IF ~malformed(exons[k]) /\ exons[k][3] = exon_num THEN k
  ELSE exon_index(exons, exon_num, k + 1)

\* the loop unpacks a malformed window before it reaches the matching one
determine_exon_position_raises(pam_pos, exons, exon_num) ==
  /\ exon_num # 0
  /\ exons # <<>>
  /\ LET m == exon_index(exons, exon_num, 1)
     IN \E k \in 1..Len(exons) : malformed(exons[k]) /\ (m = 0 \/ k < m)

determine_exon_position(pam_pos, exons, exon_num) ==
  IF exon_num = 0 \/ exons = <<>> THEN None
  ELSE LET m == exon_index(exons, exon_num, 1)
       IN IF m = 0 THEN None
          ELSE LET start == exons[m][1]
                   exon_len == exons[m][2] - start
                   \* rel_pos as a rational num / den
                   num == IF exon_len > 0 THEN pam_pos - start ELSE 1
                   den == IF exon_len > 0 THEN exon_len ELSE 2
               IN IF 100 * num < 33 * den THEN Some("early")
                  ELSE IF 100 * num < 67 * den THEN Some("middle")
                  ELSE Some("late")

\* comparing the position with a cds_start that is not a number raises
calculate_cds_frame_raises(position, info) == info.cds_start = None

calculate_cds_frame(position, info) ==
  LET cds_start == info.cds_start[1]
  IN IF position < cds_start THEN None
     ELSE Some((position - cds_start) % 3)

\* variant: the HIGH test comes first
classify_severity_high_first(doench_score, off_target_count, has_pathway_conflict, off_targets) ==
  LET critical_ot == count_severity(off_targets, "CRITICAL")
      high_ot == count_severity(off_targets, "HIGH")
  IN IF has_pathway_conflict \/ critical_ot > 0 \/ high_ot > 2 THEN "HIGH"
     ELSE IF has_pathway_conflict /\ critical_ot > 0 THEN "CRITICAL"
     ELSE IF critical_ot > 2
             \/ (high_ot > 3 /\ 10 * doench_score.num > 7 * doench_score.den)
       THEN "CRITICAL"
     ELSE IF off_target_count > 5 \/ high_ot > 0 THEN "MEDIUM"
     ELSE "LOW"
\* _classify_severity
classify_severity(doench_score, off_target_count, has_pathway_conflict, off_targets) ==
  LET critical_ot == count_severity(off_targets, "CRITICAL")
      high_ot == count_severity(off_targets, "HIGH")
  IN IF has_pathway_conflict /\ critical_ot > 0 THEN "CRITICAL"
     ELSE IF critical_ot > 2
             \/ (high_ot > 3 /\ 10 * doench_score.num > 7 * doench_score.den)
       THEN "CRITICAL"
     ELSE IF has_pathway_conflict \/ critical_ot > 0 \/ high_ot > 2 THEN "HIGH"
     ELSE IF off_target_count > 5 \/ high_ot > 0 THEN "MEDIUM"
     ELSE "LOW"

get_safety_recommendation(severity) ==
  CASE severity = "CRITICAL" ->
         "DO NOT USE without extensive validation. Consider CRISPRi, base editing, or alternative target sites. High risk of pathway disruption and off-target effects."
    [] severity = "HIGH" ->
         "Use with caution. Recommend comprehensive off-target validation including GUIDE-seq or CIRCLE-seq. Consider heterozygous approach."
    [] severity = "MEDIUM" ->
         "Acceptable for most applications. Include standard off-target analysis (T7E1, targeted sequencing) in experimental design."
    [] severity = "LOW" ->
         "Safe for use. Minimal off-target concerns. Standard validation recommended."
    [] OTHER -> "Manual review required. Insufficient data for assessment."

(***************************************************************************)
(* The designer and the body of design_guides.                             *)
(***************************************************************************)
\* CRISPRDesigner.__init__
new_designer(cas_type) ==
  [cas_type |-> cas_type,
   pam_config |-> tables.PAM_CONFIGS[cas_type],
   compiled_forward_regex |-> tables.PAM_CONFIGS[cas_type].pattern,
   compiled_reverse_regex |-> tables.PAM_CONFIGS[cas_type].rc_pattern]

\* GuideRNA.to_dict; the text f"{a}-{b}" is the triple <<a, "-", b>>
to_dict(g) ==
  [seq |-> g.sequence,
   pam_sequence |-> g.pam_sequence,
   position |-> <<g.position, "-", g.position + Len(g.sequence)>>,
   strand |-> g.strand,
   cas_type |-> g.cas_type,
   doench_score |-> g.doench_score,
   specificity_score |-> g.specificity_score,
   off_target_count |-> g.off_target_count,
   gc_content |-> g.gc_content,
   has_poly_t |-> g.has_poly_t,
   repeat_count |-> g.repeat_count,
   pam_quality |-> g.pam_quality,
   exon_number |-> g.exon_number,
   exon_position |-> g.exon_position,
   cds_frame |-> g.cds_frame,
   pathway_conflict |-> g.pathway_conflict,
   cfd_off_targets |-> g.off_target_count,
   severity_level |-> g.severity_level,
   safety_recommendation |-> g.safety_recommendation]

\* the i-th placeholder (i = 0, 1, 2); the text
\* f"PLACEHOLDER_GUIDE_{i+1}_FOR_{gene_symbol}" is a tuple of its pieces
fallback_guide(self, gene_symbol, i) ==
  [seq |-> <<"PLACEHOLDER_GUIDE_", <<"1", "2", "3">>[i + 1], "_FOR_",
             gene_symbol>>,
   pam_sequence |-> <<"N", "G", "G">>,
   position |-> <<i * 100, "-", i * 100 + 20>>,
   strand |-> "+",
   cas_type |-> self.cas_type,
   doench_score |-> [num |-> 7 - i, den |-> 10],
   specificity_score |-> 800 - (i * 100),
   off_target_count |-> i + 1,
   gc_content |-> [num |-> 55, den |-> 100],
   has_poly_t |-> FALSE,
   repeat_count |-> 2,
   pam_quality |-> 100,
   exon_number |-> i + 1,
   exon_position |-> Some("early"),
   cds_frame |-> Some(0),
   pathway_conflict |-> FALSE,
   cfd_off_targets |-> i + 1,
   severity_level |-> "MEDIUM",
   safety_recommendation |->
     "Sequence data unavailable - validate experimentally"]

\* variant: the guides built so far, of which there are none, instead of
\* the placeholders
generate_fallback_guides_none(self, gene_symbol, taxid) == <<>>
\* _generate_fallback_guides
generate_fallback_guides(self, gene_symbol, taxid) ==
  [k \in 1..3 |-> fallback_guide(self, gene_symbol, k - 1)]

\* the quality filters of the loop; gc_min, gc_max in hundredths and
\* min_doench_score in thousandths
\* variant: the lower bound is not tested
gc_above_range(gc_content, gc_min, gc_max) ==
  100 * gc_content.num > gc_max * gc_content.den
\* gc_content < gc_min or gc_content > gc_max
gc_out_of_range(gc_content, gc_min, gc_max) ==
  \/ 100 * gc_content.num < gc_min * gc_content.den
  \/ 100 * gc_content.num > gc_max * gc_content.den

\* repeat_count > max_repeats
too_many_repeats(repeat_count, max_repeats) == repeat_count > max_repeats

\* doench_score < min_doench_score
below_min_doench(doench_score, min_doench_score) ==
  doench_score.num < min_doench_score * (doench_score.den \div 1000)

\* One iteration of the loop over pam_sites.  The outcome is the filter
\* that rejected the candidate, "raise" for an exception, or "guide" with
\* the GuideRNA built; scored is the value of the on-target scorer when the
\* candidate reached it.
process_candidate(self, a, info, pathway, site) ==
  LET pam_pos == site[1]
      pam_seq == site[2]
      strand == site[3]
      exon_num == site[4]
      guide_seq == extract_guide_sequence(self, info.sequence, pam_pos, strand)
      gc_content == calculate_gc_content(guide_seq)
      has_poly_t == IF a.avoid_poly_t THEN check_poly_t(guide_seq, 4) ELSE FALSE
      repeat_count == count_max_repeats(guide_seq)
      doench_score == calculate_doench_2016(guide_seq, pam_seq, a.gc_optimal)
      pam_quality == get_pam_quality(pam_seq)
      off_targets == predict_off_targets_cfd(guide_seq, a.taxid, 4,
                                             a.max_off_targets)
      off_target_count == Len(off_targets)
      specificity_score == calculate_specificity_score(off_targets, pam_quality)
      conflicts == check_pathway_conflicts(pathway, off_targets,
                                           a.gene_symbol, a.taxid)
      severity_level == classify_severity(doench_score, off_target_count,
                                          conflicts[1], off_targets)
      metrics == <<"_extract_guide_sequence", "_calculate_gc_content">>
                 \o (IF a.avoid_poly_t THEN <<"_check_poly_t">> ELSE <<>>)
                 \o <<"_count_max_repeats">>
      on_target == metrics \o <<"_calculate_doench_2016">>
      checked == on_target \o <<"_get_pam_quality", "_predict_off_targets_cfd",
                                "_calculate_specificity_score",
                                "_check_pathway_conflicts",
                                "_determine_exon_position">>
      rejected(by) ==
        [kind |-> by, scored |-> None,
         calls |-> IF by = "bounds" THEN <<"_extract_guide_sequence">>
                   ELSE metrics]
  IN IF guide_seq = <<>> \/ Len(guide_seq) # self.pam_config.spacer_length
       THEN rejected("bounds")
     ELSE IF gc_out_of_range(gc_content, a.gc_min, a.gc_max)
       THEN rejected("gc")
     ELSE IF has_poly_t /\ a.avoid_poly_t THEN rejected("poly_t")
     ELSE IF too_many_repeats(repeat_count, a.max_repeats)
       THEN rejected("repeats")
     ELSE IF below_min_doench(doench_score, a.min_doench_score)
       THEN [kind |-> "doench", scored |-> Some(doench_score),
             calls |-> on_target]
     ELSE IF \/ determine_exon_position_raises(pam_pos, info.exons, exon_num)
             \/ calculate_cds_frame_raises(pam_pos, info)
       THEN [kind |-> "raise", scored |-> Some(doench_score),
             calls |-> IF determine_exon_position_raises(pam_pos, info.exons,
                                                         exon_num)
                         THEN checked
                       ELSE checked \o <<"_calculate_cds_frame">>]
     ELSE [kind |-> "guide", scored |-> Some(doench_score),
           calls |-> checked \o <<"_calculate_cds_frame", "_classify_severity",
                                  "_get_safety_recommendation", "GuideRNA">>,
           guide |->
             [sequence |-> guide_seq,
              pam_sequence |-> pam_seq,
              position |-> pam_pos,
              strand |-> strand,
              cas_type |-> self.cas_type,
              doench_score |-> doench_score,
              specificity_score |-> specificity_score,
              off_target_count |-> off_target_count,
              gc_content |-> gc_content,
              has_poly_t |-> has_poly_t,
              repeat_count |-> repeat_count,
              pam_quality |-> pam_quality,
              exon_number |-> exon_num,
              exon_position |->
                determine_exon_position(pam_pos, info.exons, exon_num),
              cds_frame |-> calculate_cds_frame(pam_pos, info),
              pathway_conflict |-> conflicts[1],
              pathway_conflict_genes |-> conflicts[2],
              off_targets |-> IF a.include_off_target_details
                                THEN off_targets ELSE <<>>,
              severity_level |-> severity_level,
              safety_recommendation |->
                get_safety_recommendation(severity_level)]]

\* g.doench_score * g.specificity_score as a pair <<hi, lo>> standing for
\* (hi * 1000 + lo) / (den * 1000): the product of the numerator and the
\* thousandths, split so that it stays within 32 bits
composite_score(g) ==
  LET dh == g.doench_score.num \div 1000
      dl == g.doench_score.num % 1000
      s == g.specificity_score
  IN <<dh * s + ((dl * s) \div 1000), (dl * s) % 1000>>

\* variant: ascending order
rank_guides_ascending(gs) ==
  LET sorted == sort_desc(gs, [k \in 1..Len(gs) |-> composite_score(gs[k])])
  IN [i \in 1..Len(gs) |-> sorted[Len(gs) + 1 - i]]
\* guides.sort(key=lambda g: g.doench_score * g.specificity_score, reverse=True)
rank_guides(gs) ==
  sort_desc(gs, [k \in 1..Len(gs) |-> composite_score(gs[k])])

\* variant: placeholders for an empty list of survivors
top_guides_placeholders(gs) ==
  IF gs = <<>>
    THEN [k \in 1..3 |-> fallback_guide([cas_type |-> "SpCas9"], "TP53", k - 1)]
    ELSE [k \in 1..Min(20, Len(gs)) |-> to_dict(gs[k])]
\* variant: no truncation
top_guides_all(gs) == [k \in 1..Len(gs) |-> to_dict(gs[k])]
\* [g.to_dict() for g in guides[:20]]
top_guides(gs) == [k \in 1..Min(20, Len(gs)) |-> to_dict(gs[k])]

(***************************************************************************)
(* The module-level design_guides: conversion of the cas_type argument.    *)
(* An argument is a CasType member [kind |-> "enum"] or a str.             *)
(***************************************************************************)
\* str.lower() on the strings of the model
lower(s) ==
  CASE s = "SpCas9" -> "spcas9" [] s = "SACAS9" -> "sacas9"
    [] s = "Cas12a" -> "cas12a" [] s = "Cas9-NG" -> "cas9-ng"
    [] s = "xCas9" -> "xcas9"   [] s = "Cas13" -> "cas13"
    [] s = "Cpf1" -> "cpf1"     [] OTHER -> s

cas_type_map ==
  "spcas9" :> "SpCas9" @@ "sacas9" :> "SaCas9" @@ "cas12a" :> "Cas12a" @@
  "cas9-ng" :> "Cas9-NG" @@ "xcas9" :> "xCas9"

\* cas_type_map.get(cas_type.lower(), CasType.SPCAS9) for a str
convert_cas_type(cas_type) ==
  IF cas_type.kind = "str"
    THEN IF lower(cas_type.value) \in DOMAIN cas_type_map
           THEN cas_type_map[lower(cas_type.value)]
           ELSE "SpCas9"
    ELSE cas_type.value

(***************************************************************************)
(* Inputs: the gene provider's responses, the pathway checker's behaviour  *)
(* and the arguments of a call.                                            *)
(***************************************************************************)
\* the first n bases of the motif repeated
gene_sequence(motif, n) == [i \in 1..n |-> motif[((i - 1) % Len(motif)) + 1]]

\* no PAM site of any Cas type
MotifAT == <<"A","T">>
\* many sites, repeated spacers
MotifDense == <<"C","A","C","A","C","G","C","T">>
\* sites of all five Cas types, poly-T runs, long runs, C-rich spacers
MotifRich ==
  <<"C","T","C","C","C","G","T","T","T","G","C","A","A","A","A","T","A","C",
    "C","C","C","C","A","A","C","G","C","A","C","C","T","C","T","C","T">>

Motifs == {MotifAT, MotifDense, MotifRich}

\* _estimate_exon_structure
RECURSIVE estimated_exons(_, _, _, _)
estimated_exons(seq_len, exon_size, num_exons, i) ==
  IF i >= num_exons THEN <<>>
  ELSE << <<i * exon_size, Min((i + 1) * exon_size, seq_len), i + 1>> >>
       \o estimated_exons(seq_len, exon_size, num_exons, i + 1)

estimate_exon_structure(sequence) ==
  LET seq_len == Len(sequence)
      num_exons == Min(8, Max(3, seq_len \div 500))
  IN IF seq_len < 500 THEN << <<0, seq_len, 1>> >>
     ELSE estimated_exons(seq_len, seq_len \div num_exons, num_exons, 0)

\* exon structures a provider can answer with: none, the estimate of
\* _fetch_gene_info_with_exons, four windows, and a window that is not a
\* (start, end, exon_number) triple
exon_structure(kind, sequence) ==
  LET n == Len(sequence)
      q == n \div 4
  IN CASE kind = "none" -> <<>>
       [] kind = "estimated" -> estimate_exon_structure(sequence)
       [] kind = "four" ->
            << <<0, q, 1>>, <<q, 2 * q, 2>>, <<2 * q, 3 * q, 3>>, <<3 * q, n, 4>> >>
       [] kind = "malformed" -> << <<0, n, 1>>, <<0, n>> >>

gene_response(motif, n, exon_kind, cds_ok) ==
  LET sequence == gene_sequence(motif, n)
  IN Some([sequence |-> sequence,
           exons |-> exon_structure(exon_kind, sequence),
           cds_start |-> IF cds_ok THEN Some(n \div 6) ELSE None])

PathwayAbsent == [state |-> "absent", neighbors |-> <<>>]
PathwayFails == [state |-> "fails", neighbors |-> <<>>]
PathwayOk(neighbors) == [state |-> "ok", neighbors |-> neighbors]

DefaultArgs ==
  [gene_symbol |-> "TP53", taxid |-> "9606", target_exons |-> None,
   gc_min |-> 40, gc_max |-> 70, gc_optimal |-> 55, avoid_poly_t |-> TRUE,
   max_repeats |-> 4, min_doench_score |-> 300, max_off_targets |-> 50,
   include_off_target_details |-> TRUE]

\* every filter open
OpenArgs ==
  [DefaultArgs EXCEPT !.gc_min = 0, !.gc_max = 100, !.avoid_poly_t = FALSE,
                      !.max_repeats = 20, !.min_doench_score = 0]

enum(c) == [kind |-> "enum", value |-> c]
str(s) == [kind |-> "str", value |-> s]

call(via, cas, designer, args, provider, pathway) ==
  [via |-> via, cas_type |-> cas, designer |-> designer, args |-> args,
   provider |-> provider, pathway |-> pathway]

\* the filter parameters, on long sequences
FilterInputs ==
  {call("method", enum(c), 1,
        [DefaultArgs EXCEPT !.gc_min = gc[1], !.gc_max = gc[2],
                            !.avoid_poly_t = p, !.max_repeats = r,
                            !.min_doench_score = d],
        gene_response(MotifRich, MaxSeqLen, "estimated", TRUE), PathwayAbsent) :
     c \in CasType, gc \in {<<40, 70>>, <<50, 60>>}, p \in BOOLEAN,
     r \in {2, 4}, d \in {0, 300, 500}}
  \cup
  {call("method", enum(c), 1,
        [DefaultArgs EXCEPT !.gc_min = gc[1], !.gc_max = gc[2],
                            !.min_doench_score = d],
        gene_response(MotifDense, MaxSeqLen, "estimated", TRUE), PathwayAbsent) :
     c \in CasType, gc \in {<<40, 70>>, <<50, 60>>}, d \in {0, 300, 500}}

\* the provider fails, or answers with a sequence of some length
ProviderInputs ==
  {call("method", enum(c), 1, a, None, PathwayAbsent) :
     c \in CasType, a \in {DefaultArgs, OpenArgs}}
  \cup
  {call("method", enum(c), 1, a, gene_response(m, n, "estimated", cds),
        PathwayAbsent) :
     c \in CasType, a \in {DefaultArgs, OpenArgs}, m \in Motifs,
     n \in {0, 25, 30, 34, MaxSeqLen}, cds \in BOOLEAN}

\* the exon structure of the response and the exon selection
ExonInputs ==
  {call("method", enum(c), 1, [a EXCEPT !.target_exons = te],
        gene_response(MotifRich, MaxSeqLen, e, cds), PathwayAbsent) :
     c \in CasType, a \in {DefaultArgs, OpenArgs},
     te \in {None, <<2>>, <<1, 4>>},
     e \in {"none", "estimated", "four", "malformed"}, cds \in BOOLEAN}

\* the pathway checker and the off-target parameters
CollaboratorInputs ==
  {call("method", enum(c), 1,
        [a EXCEPT !.max_off_targets = mo[1],
                   !.include_off_target_details = mo[2]],
        gene_response(MotifRich, MaxSeqLen, "estimated", TRUE), pw) :
     c \in CasType, a \in {DefaultArgs, OpenArgs}, mo \in {<<0, TRUE>>, <<1, TRUE>>, <<50, TRUE>>, <<50, FALSE>>},
     pw \in {PathwayAbsent, PathwayFails, PathwayOk(<<>>),
             PathwayOk(<< <<"gene", 0>> >>),
             PathwayOk(<< <<"GENE", 1>>, <<"GENE", 2>> >>)}}

\* calls of the module-level function with a cas_type argument
CasTypeArgs ==
  {enum(c) : c \in CasType}
  \cup {str(s) : s \in {"SpCas9", "SACAS9", "cas12a", "Cas9-NG", "xcas9",
                        "Cas13", "Cpf1"}}

EntryInputs ==
  {call("function", c, 1, a,
        gene_response(MotifRich, MaxSeqLen, "estimated", TRUE), PathwayAbsent) :
     c \in CasTypeArgs, a \in {DefaultArgs, OpenArgs}}

Inputs == FilterInputs \cup ProviderInputs \cup ExonInputs
          \cup CollaboratorInputs \cup EntryInputs

(***************************************************************************)
(* The state machine of design_guides.                                     *)
(* Stages: entry (module-level function only) -> start -> scanning ->      *)
(* candidates -> truncating -> done.                                       *)
(***************************************************************************)
Threads == {1, 2}

Self(t) == designers[inp[t].designer][1]

InitCall(i1, i2, pc0) ==
  /\ tables = ModuleTables
  /\ inp = [t \in Threads |-> IF t = 1 THEN i1 ELSE i2]
  /\ designers =
       [d \in Threads |->
          IF \E t \in Threads :
               /\ pc0[t] # "off" /\ inp[t].designer = d
               /\ inp[t].via = "method"
            THEN LET t == CHOOSE u \in Threads :
                            /\ pc0[u] # "off" /\ inp[u].designer = d
                            /\ inp[u].via = "method"
                 IN Some(new_designer(inp[t].cas_type.value))
            ELSE None]
  /\ pc = pc0
  /\ gene_info = [t \in Threads |-> None]
  /\ pam_sites = [t \in Threads |-> <<>>]
  /\ idx = [t \in Threads |-> 0]
  /\ guides = [t \in Threads |-> <<>>]
  /\ result = [t \in Threads |-> None]
  /\ run = [t \in Threads |-> 1]
  /\ first = [t \in Threads |-> None]
  /\ scored = [t \in Threads |-> None]
  /\ trace = [t \in Threads |-> <<>>]

EntryPc(i) == IF i.via = "function" THEN "entry" ELSE "start"

\* one call, on its own
Init ==
  /\ fn = [op |-> "none"]
  /\ \E i \in Inputs :
       InitCall(i, i, [t \in Threads |-> IF t = 1 THEN EntryPc(i) ELSE "off"])

\* one step of design_guides: the function called or the statement run; a
\* loop iteration carries its outcome and the calls it made
step(name) == [step |-> name, kind |-> "", calls |-> <<>>]

iteration(out) == [step |-> "for", kind |-> out.kind, calls |-> out.calls]

fallback_step == <<step("_generate_fallback_guides")>>

Log(t, steps) == trace' = [trace EXCEPT ![t] = @ \o steps]

\* the call returns value
Return(t, value) ==
  /\ result' = [result EXCEPT ![t] = Some(value)]
  /\ pc' = [pc EXCEPT ![t] = "done"]

\* design_guides(gene_symbol, taxid, cas_type=...): converts the argument and
\* constructs the designer the call runs on
ModuleDesignGuides(t) ==
  /\ pc[t] = "entry"
  /\ designers' = [designers EXCEPT ![inp[t].designer] =
                     Some(new_designer(convert_cas_type(inp[t].cas_type)))]
  /\ pc' = [pc EXCEPT ![t] = "start"]
  /\ UNCHANGED <<tables, inp, gene_info, pam_sites, idx, guides, result, run,
                 first, scored, trace, fn>>

\* gene_info = self._fetch_gene_info_with_exons(...) and the two checks of it
FetchSequence(t) ==
  /\ pc[t] = "start"
  /\ LET info == inp[t].provider
     IN IF info = None
          THEN /\ Return(t, generate_fallback_guides(Self(t),
                              inp[t].args.gene_symbol, inp[t].args.taxid))
               /\ Log(t, <<step("_fetch_gene_info_with_exons")>> \o fallback_step)
               /\ UNCHANGED gene_info
        ELSE IF \/ info[1].sequence = <<>>
                \/ Len(info[1].sequence) < Self(t).pam_config.spacer_length + 10
          THEN /\ Return(t, generate_fallback_guides(Self(t),
                              inp[t].args.gene_symbol, inp[t].args.taxid))
               /\ gene_info' = [gene_info EXCEPT ![t] = info]
               /\ Log(t, <<step("_fetch_gene_info_with_exons")>> \o fallback_step)
        ELSE /\ gene_info' = [gene_info EXCEPT ![t] = info]
             /\ pc' = [pc EXCEPT ![t] = "scanning"]
             /\ Log(t, <<step("_fetch_gene_info_with_exons")>>)
             /\ UNCHANGED result
  /\ UNCHANGED <<tables, designers, inp, pam_sites, idx, guides, run, first,
                 scored, fn>>

\* pam_sites = self._find_pam_sites_both_strands(sequence, exons, target_exons)
ScanPam(t) ==
  /\ pc[t] = "scanning"
  /\ LET info == gene_info[t][1]
         te == inp[t].args.target_exons
     IN IF find_pam_sites_raises(info.sequence, info.exons, te)
          THEN /\ Return(t, generate_fallback_guides(Self(t),
                              inp[t].args.gene_symbol, inp[t].args.taxid))
               /\ Log(t, <<step("_find_pam_sites_both_strands")>> \o fallback_step)
               /\ UNCHANGED <<pam_sites, idx, guides>>
          ELSE /\ pam_sites' = [pam_sites EXCEPT ![t] =
                   find_pam_sites_both_strands(Self(t), info.sequence,
                                               info.exons, te)]
               /\ idx' = [idx EXCEPT ![t] = 0]
               /\ guides' = [guides EXCEPT ![t] = <<>>]
               /\ pc' = [pc EXCEPT ![t] = "candidates"]
               /\ Log(t, <<step("_find_pam_sites_both_strands")>>)
               /\ UNCHANGED result
  /\ UNCHANGED <<tables, designers, inp, gene_info, run, first, scored, fn>>

\* variant: the loop with the list of guides kept on the designer: a guide is appended
\* to the list of every call that runs on the same designer
ProcessCandidate_shared(t) ==
  /\ pc[t] = "candidates"
  /\ idx[t] < Len(pam_sites[t])
  /\ \E out \in {process_candidate(Self(t), inp[t].args, gene_info[t][1],
                                  inp[t].pathway, pam_sites[t][idx[t] + 1])} :
        /\ scored' = [scored EXCEPT ![t] =
                        IF out.scored = None THEN @ ELSE out.scored]
        /\ idx' = [idx EXCEPT ![t] = @ + 1]
        /\ guides' = [u \in Threads |->
                        IF out.kind = "guide" /\ pc[u] # "off"
                           /\ inp[u].designer = inp[t].designer
                          THEN Append(guides[u], out.guide) ELSE guides[u]]
        /\ Log(t, <<iteration(out)>>)
        /\ UNCHANGED <<pc, result>>
  /\ UNCHANGED <<tables, designers, inp, gene_info, pam_sites, run, first, fn>>

\* one iteration of: for pam_pos, pam_seq, strand, exon_num in pam_sites
ProcessCandidate(t) ==
  /\ pc[t] = "candidates"
  /\ idx[t] < Len(pam_sites[t])
  /\ \E out \in {process_candidate(Self(t), inp[t].args, gene_info[t][1],
                                  inp[t].pathway, pam_sites[t][idx[t] + 1])} :
        /\ scored' = [scored EXCEPT ![t] =
                        IF out.scored = None THEN @ ELSE out.scored]
        /\ IF out.kind = "raise"
             THEN /\ Return(t, generate_fallback_guides(Self(t),
                                 inp[t].args.gene_symbol, inp[t].args.taxid))
                  /\ Log(t, <<iteration(out)>> \o fallback_step)
                  /\ UNCHANGED <<idx, guides>>
             ELSE /\ idx' = [idx EXCEPT ![t] = @ + 1]
                  /\ Log(t, <<iteration(out)>>)
                  /\ guides' = [guides EXCEPT ![t] =
                                  IF out.kind = "guide"
                                    THEN Append(@, out.guide) ELSE @]
                  /\ UNCHANGED <<pc, result>>
  /\ UNCHANGED <<tables, designers, inp, gene_info, pam_sites, run, first, fn>>

\* variant: the list is sorted as soon as the loop has started, whatever is
\* left of pam_sites
RankGuides_early(t) ==
  /\ pc[t] = "candidates"
  /\ idx[t] <= Len(pam_sites[t])
  /\ guides' = [guides EXCEPT ![t] = rank_guides(@)]
  /\ pc' = [pc EXCEPT ![t] = "truncating"]
  /\ Log(t, <<step("guides.sort")>>)
  /\ UNCHANGED <<tables, designers, inp, gene_info, pam_sites, idx, result,
                 run, first, scored, fn>>

\* guides.sort(...), once the loop is over
RankGuides(t) ==
  /\ pc[t] = "candidates"
  /\ idx[t] = Len(pam_sites[t])
  /\ guides' = [guides EXCEPT ![t] = rank_guides(@)]
  /\ pc' = [pc EXCEPT ![t] = "truncating"]
  /\ Log(t, <<step("guides.sort")>>)
  /\ UNCHANGED <<tables, designers, inp, gene_info, pam_sites, idx, result,
                 run, first, scored, fn>>

\* return [g.to_dict() for g in guides[:20]]
TruncateAndReturn(t) ==
  /\ pc[t] = "truncating"
  /\ Return(t, top_guides(guides[t]))
  /\ Log(t, <<step("guides[:20]")>>)
  /\ UNCHANGED <<tables, designers, inp, gene_info, pam_sites, idx, guides,
                 run, first, scored, fn>>

\* the same call is made again: same arguments, same responses
CallAgain(t) ==
  /\ pc[t] = "done"
  /\ run[t] < MaxRuns
  /\ run' = [run EXCEPT ![t] = @ + 1]
  /\ first' = [first EXCEPT ![t] = IF run[t] = 1 THEN result[t] ELSE @]
  /\ pc' = [pc EXCEPT ![t] = EntryPc(inp[t])]
  /\ gene_info' = [gene_info EXCEPT ![t] = None]
  /\ pam_sites' = [pam_sites EXCEPT ![t] = <<>>]
  /\ idx' = [idx EXCEPT ![t] = 0]
  /\ guides' = [guides EXCEPT ![t] = <<>>]
  /\ result' = [result EXCEPT ![t] = None]
  /\ scored' = [scored EXCEPT ![t] = None]
  /\ trace' = [trace EXCEPT ![t] = <<>>]
  /\ UNCHANGED <<tables, designers, inp, fn>>

Next ==
  \E t \in Threads :
    \/ ModuleDesignGuides(t)
    \/ FetchSequence(t)
    \/ ScanPam(t)
    \/ ProcessCandidate(t)
    \/ RankGuides(t)
    \/ TruncateAndReturn(t)
    \/ CallAgain(t)

Spec == Init /\ [][Next]_vars

(***************************************************************************)
(* design_guides as a function of the designer and of its inputs: what a   *)
(* call returns when nothing else runs.                                    *)
(***************************************************************************)
\* the loop over pam_sites from its k-th site on
RECURSIVE candidates_loop(_, _, _, _, _, _, _)
candidates_loop(self, a, info, pathway, sites, k, gs) ==
  IF k > Len(sites) THEN [raised |-> FALSE, guides |-> gs]
  ELSE LET out == process_candidate(self, a, info, pathway, sites[k])
       IN IF out.kind = "raise" THEN [raised |-> TRUE, guides |-> gs]
          ELSE candidates_loop(self, a, info, pathway, sites, k + 1,
                               IF out.kind = "guide"
                                 THEN Append(gs, out.guide) ELSE gs)

design_guides_result(self, i) ==
  LET a == i.args
      fallback == generate_fallback_guides(self, a.gene_symbol, a.taxid)
  IN IF i.provider = None THEN fallback
     ELSE LET info == i.provider[1]
          IN IF \/ info.sequence = <<>>
                \/ Len(info.sequence) < self.pam_config.spacer_length + 10
               THEN fallback
             ELSE IF find_pam_sites_raises(info.sequence, info.exons,
                                           a.target_exons)
               THEN fallback
             ELSE LET sites == find_pam_sites_both_strands(
                                 self, info.sequence, info.exons, a.target_exons)
                      loop == candidates_loop(self, a, info, i.pathway, sites,
                                              1, <<>>)
                  IN IF loop.raised THEN fallback
                     ELSE top_guides(rank_guides(loop.guides))

(***************************************************************************)
(* Two calls of design_guides running concurrently, on one designer or on  *)
(* two.                                                                    *)
(***************************************************************************)
ConcCalls(via, d) ==
  {call(via, enum(c), d, a, gene_response(m, 34, "estimated", TRUE),
        PathwayAbsent) :
     c \in {"SpCas9", "Cas12a", "Cas9-NG"}, a \in {DefaultArgs, OpenArgs},
     m \in {MotifRich, MotifDense}}

InitConc ==
  /\ fn = [op |-> "none"]
  /\ \E i1 \in ConcCalls("method", 1),
        i2 \in ConcCalls("method", 1) \cup ConcCalls("method", 2)
                 \cup ConcCalls("function", 2) :
       /\ i2.designer = 1 => i2.cas_type = i1.cas_type
       /\ InitCall(i1, i2, [t \in Threads |-> EntryPc(IF t = 1 THEN i1 ELSE i2)])

NextConc ==
  \E t \in Threads :
    \/ ModuleDesignGuides(t)
    \/ FetchSequence(t)
    \/ ScanPam(t)
    \/ ProcessCandidate(t)
    \/ RankGuides(t)
    \/ TruncateAndReturn(t)

SpecConc == InitConc /\ [][NextConc]_vars

(***************************************************************************)
(* _classify_severity applied on its own.                                  *)
(***************************************************************************)
SeverityTags == {"CRITICAL", "HIGH", "MEDIUM", "LOW"}

\* off-target lists; the classifier reads the severity of an OffTarget only
OffTargetLists ==
  UNION {{[k \in 1..n |-> [severity |-> f[k]]] : f \in [1..n -> SeverityTags]} :
           n \in 0..MaxOffTargetList}

\* on-target scores 0.5, 0.7, 0.75 and 0.8 of a 20-base spacer
OnTargetScores ==
  {[num |-> n * MICRO, den |-> 20 * MICRO] : n \in {10, 14, 15, 16}}

IdleCall == call("method", enum("SpCas9"), 1, DefaultArgs, None, PathwayAbsent)

InitClassify ==
  /\ \E d \in OnTargetScores, c \in {0, 5, 6}, p \in BOOLEAN,
        l \in OffTargetLists :
       fn = [op |-> "classify_severity", doench_score |-> d,
             off_target_count |-> c, has_pathway_conflict |-> p,
             off_targets |-> l, value |-> None]
  /\ InitCall(IdleCall, IdleCall, [t \in Threads |-> "off"])

ClassifySeverity ==
  /\ fn.op = "classify_severity"
  /\ fn.value = None
  /\ fn' = [fn EXCEPT !.value =
              Some(classify_severity(fn.doench_score, fn.off_target_count,
                                     fn.has_pathway_conflict, fn.off_targets))]
  /\ UNCHANGED <<tables, designers, inp, pc, gene_info, pam_sites, idx, guides,
                 result, run, first, scored, trace>>

NextClassify == ClassifySeverity

SpecClassify == InitClassify /\ [][NextClassify]_vars

(***************************************************************************)
(* The scoring helpers applied on their own.  fn holds the helper's name,  *)
(* its arguments and, once it has returned, its value.                     *)
(***************************************************************************)
FnIdle ==
  /\ InitCall(IdleCall, IdleCall, [t \in Threads |-> "off"])

FnUnchanged ==
  UNCHANGED <<tables, designers, inp, pc, gene_info, pam_sites, idx, guides,
              result, run, first, scored, trace>>

\* the values _get_pam_quality produces, in hundredths
PamQualities == {10, 20, 30, 80, 85, 90, 100}

\* how many off-targets of one severity a list holds
SeverityCounts == {0, 1, MaxOffTargetList, 2 * MaxOffTargetList - 1}

\* c CRITICAL, h HIGH, m MEDIUM and l LOW off-targets, in that order
tagged_list(c, h, m, l) ==
  [k \in 1..(c + h + m + l) |->
     [severity |-> IF k <= c THEN "CRITICAL"
                   ELSE IF k <= c + h THEN "HIGH"
                   ELSE IF k <= c + h + m THEN "MEDIUM"
                   ELSE "LOW"]]

InitSpecificity ==
  \E q \in PamQualities,
     l \in OffTargetLists
           \cup {tagged_list(c[1], c[2], c[3], c[4]) :
                   c \in SeverityCounts \X SeverityCounts
                         \X SeverityCounts \X SeverityCounts} :
    fn = [op |-> "calculate_specificity_score", off_targets |-> l,
          pam_quality |-> q, value |-> None]

CalculateSpecificityScore ==
  /\ fn.op = "calculate_specificity_score"
  /\ fn.value = None
  /\ fn' = [fn EXCEPT !.value =
              Some(calculate_specificity_score(fn.off_targets,
                                               fn.pam_quality))]
  /\ FnUnchanged

\* sorted lists of at most MaxMismatches distinct positions of a spacer
RECURSIVE sorted_lists(_, _)
sorted_lists(spacer_length, n) ==
  IF n = 0 THEN {<<>>}
  ELSE LET shorter == sorted_lists(spacer_length, n - 1)
       IN shorter
          \cup {Append(x[1], x[2]) :
                  x \in {y \in shorter \X (1..spacer_length) :
                           y[1] = <<>> \/ y[1][Len(y[1])] < y[2]}}

MismatchLists(spacer_length) == sorted_lists(spacer_length, MaxMismatches)

\* smaller holds the score of the list before a position was added to it
InitCfd ==
  \E c \in CasType :
    \E m \in MismatchLists(PAM_CONFIGS[c].spacer_length) :
      fn = [op |-> "calculate_cfd_score", cas_type |-> c,
            mismatch_positions |-> m, value |-> None,
            added |-> None, smaller |-> None]

CalculateCfdScore ==
  /\ fn.op = "calculate_cfd_score"
  /\ fn.value = None
  /\ fn' = [fn EXCEPT !.value =
              Some(calculate_cfd_score(fn.mismatch_positions))]
  /\ FnUnchanged

\* the same designer scores the list with one further position of its spacer
AddMismatch ==
  /\ fn.op = "calculate_cfd_score"
  /\ fn.value # None
  /\ fn.added = None
  /\ \E p \in 1..PAM_CONFIGS[fn.cas_type].spacer_length :
       /\ \A k \in 1..Len(fn.mismatch_positions) :
            fn.mismatch_positions[k] # p
       /\ fn' = [fn EXCEPT
                   !.mismatch_positions =
                      sort_asc({fn.mismatch_positions[k] :
                                  k \in 1..Len(fn.mismatch_positions)}
                               \cup {p}),
                   !.value = None,
                   !.added = Some(p),
                   !.smaller = fn.value]
  /\ FnUnchanged

\* final scores around the thresholds 0.1, 0.3 and 0.5, in units of 10^-8
FinalScores == {k * MICRO : k \in {0, 5, 10, 11, 30, 31, 40, 50, 51, 60, 100}}

InitOffTargetSeverity ==
  \E c \in FinalScores, m \in 0..5 :
    fn = [op |-> "classify_off_target_severity", cfd_score |-> c,
          mismatches |-> m, value |-> None]

ClassifyOffTargetSeverity ==
  /\ fn.op = "classify_off_target_severity"
  /\ fn.value = None
  /\ fn' = [fn EXCEPT !.value =
              Some(classify_off_target_severity(fn.cfd_score, fn.mismatches))]
  /\ FnUnchanged

repeated(base, n) == [k \in 1..n |-> base]

\* the spacer of the spec's scenario, GAGTCCGAGCAGAAGAAGAA
ScenarioSpacer ==
  <<"G","A","G","T","C","C","G","A","G","C","A","G","A","A","G","A","A","G",
    "A","A">>

\* spacers whose GC content and longest run give 3, 4, 10, 16 and 26
\* predicted off-target candidates, and spacers of the lengths of SaCas9
\* (21) and Cas12a (23)
Spacers ==
  {ScenarioSpacer,
   gene_sequence(MotifDense, 20),
   gene_sequence(<<"G","G","G","G","C","C","C","C">>, 20),
   repeated("A", 10) \o repeated("T", 10),
   repeated("A", 20),
   repeated("C", 11) \o repeated("T", 10),
   repeated("A", 12) \o repeated("C", 11)}

InitPredict ==
  \E g \in Spacers, m \in 0..6, r \in {0, 1, 3, 12, 50} :
    fn = [op |-> "predict_off_targets_cfd", guide_seq |-> g,
          taxid |-> "9606", max_mismatches |-> m, max_results |-> r,
          value |-> None]

PredictOffTargetsCfd ==
  /\ fn.op = "predict_off_targets_cfd"
  /\ fn.value = None
  /\ \E off_targets \in {predict_off_targets_cfd(fn.guide_seq, fn.taxid,
                                                 fn.max_mismatches,
                                                 fn.max_results)} :
       fn' = [fn EXCEPT !.value = Some(off_targets)]
  /\ FnUnchanged

\* characters of a PAM argument: bases, a degenerate code, lower case and
\* characters that are no nucleotide code
PamChars == {"A", "G", "T", "N", "a", "g", "X", "-"}

\* every string of at most 3 such characters, the keys of the quality table
\* and two longer strings
PamStrings ==
  UNION {[1..n -> PamChars] : n \in 0..3}
  \cup DOMAIN PAM_QUALITY_SCORES
  \cup {<<"T","A","G","G">>, <<"N","G","A","G">>, <<"X","X","X","X","X">>}

InitPamQuality ==
  \E x \in PamStrings :
    fn = [op |-> "get_pam_quality", pam_seq |-> x, value |-> None]

GetPamQuality ==
  /\ fn.op = "get_pam_quality"
  /\ fn.value = None
  /\ fn' = [fn EXCEPT !.value = Some(get_pam_quality(fn.pam_seq))]
  /\ FnUnchanged

\* the spacers of the predictor and one whose score reaches 1.0
DoenchSpacers == Spacers \cup {repeated("G", 20)}

\* PAMs of every quality from 0.1 to 1.0
DoenchPams ==
  {<<"X","X","X">>, <<"T","G","A">>, <<"A","A","G">>, <<"G","A","A">>,
   <<"T","T","T","A">>, <<"N","N","G","R","R","T">>, <<"A","G","G">>,
   <<"T","G","G">>}

\* lower holds the PAM and the score before the PAM was replaced
InitDoench ==
  \E g \in DoenchSpacers, o \in {0, 55, 100}, x \in DoenchPams :
    fn = [op |-> "calculate_doench_2016", guide_seq |-> g, pam_seq |-> x,
          gc_optimal |-> o, value |-> None, lower |-> None]

CalculateDoench2016 ==
  /\ fn.op = "calculate_doench_2016"
  /\ fn.value = None
  /\ fn' = [fn EXCEPT !.value =
              Some(calculate_doench_2016(fn.guide_seq, fn.pam_seq,
                                         fn.gc_optimal))]
  /\ FnUnchanged

\* the same spacer is scored with a PAM of higher quality
ReplacePam ==
  /\ fn.op = "calculate_doench_2016"
  /\ fn.value # None
  /\ fn.lower = None
  /\ \E x \in DoenchPams :
       /\ get_pam_quality(x) > get_pam_quality(fn.pam_seq)
       /\ fn' = [fn EXCEPT !.pam_seq = x, !.value = None,
                           !.lower = Some([pam_seq |-> fn.pam_seq,
                                           value |-> fn.value[1]])]
  /\ FnUnchanged

\* every sequence over A, T, G, C of at most MaxStrandLen bases, the scenario
\* spacer, and every code of the complement table on its own
Strands ==
  UNION {[1..n -> {"A", "T", "G", "C"}] : n \in 0..MaxStrandLen}
  \cup {ScenarioSpacer}
  \cup {<<b>> : b \in DOMAIN COMPLEMENT}

\* again holds the reverse complement of the reverse complement
InitReverseComplement ==
  \E x \in Strands :
    fn = [op |-> "reverse_complement", seq |-> x, value |-> None,
          again |-> None]

ReverseComplement ==
  /\ fn.op = "reverse_complement"
  /\ fn.value = None
  /\ fn' = [fn EXCEPT !.value = Some(reverse_complement(fn.seq))]
  /\ FnUnchanged

ReverseComplementAgain ==
  /\ fn.op = "reverse_complement"
  /\ fn.value # None
  /\ fn.again = None
  /\ fn' = [fn EXCEPT !.again = Some(reverse_complement(fn.value[1]))]
  /\ FnUnchanged

InitFunctions ==
  /\ \/ InitSpecificity
     \/ InitCfd
     \/ InitOffTargetSeverity
     \/ InitPredict
     \/ InitPamQuality
     \/ InitDoench
     \/ InitReverseComplement
  /\ FnIdle

NextFunctions ==
  \/ CalculateSpecificityScore
  \/ CalculateCfdScore
  \/ AddMismatch
  \/ ClassifyOffTargetSeverity
  \/ PredictOffTargetsCfd
  \/ GetPamQuality
  \/ CalculateDoench2016
  \/ ReplacePam
  \/ ReverseComplement
  \/ ReverseComplementAgain

SpecFunctions == InitFunctions /\ [][NextFunctions]_vars

(***************************************************************************)
(* design_guides_multi_cas.  fn holds the arguments, the gene provider's   *)
(* response to each of the calls, the loop's position k and the results    *)
(* collected so far; the calls of design_guides run on thread 1.  For a    *)
(* member of CasType neither the constructor nor design_guides raises, so  *)
(* the handler of the loop body is not entered.                            *)
(***************************************************************************)
\* the cas_types argument: omitted, empty, one type, two types, one type
\* twice, three types
CasTypeLists ==
  {None, Some(<<>>), Some(<<"SpCas9">>), Some(<<"Cas12a", "SpCas9">>),
   Some(<<"Cas9-NG", "Cas9-NG">>), Some(<<"xCas9", "Cas9-NG", "SaCas9">>)}

\* the provider's responses to the calls, at most two of them failures
MultiResponses ==
  {r \in [1..Len(CasTypeList) ->
            {None, gene_response(MotifDense, 34, "estimated", TRUE)}] :
     Cardinality({k \in DOMAIN r : r[k] = None}) <= 2}

InitMulti ==
  /\ \E l \in CasTypeLists, a \in {DefaultArgs, OpenArgs},
        r \in MultiResponses :
       fn = [op |-> "design_guides_multi_cas", cas_types |-> l, kwargs |-> a,
             responses |-> r, list |-> None, k |-> 0, results |-> <<>>,
             value |-> None]
  /\ InitCall(IdleCall, IdleCall, [t \in Threads |-> "off"])

\* if cas_types is None: cas_types = list(CasType); results = {}
MultiCasEntry ==
  /\ fn.op = "design_guides_multi_cas"
  /\ fn.list = None
  /\ fn' = [fn EXCEPT !.list = Some(IF fn.cas_types = None THEN CasTypeList
                                    ELSE fn.cas_types[1])]
  /\ UNCHANGED <<tables, designers, inp, pc, gene_info, pam_sites, idx, guides,
                 result, run, first, scored, trace>>

\* designer = CRISPRDesigner(cas_type=cas_type) and the call of
\* designer.design_guides(gene_symbol, taxid, **kwargs)
MultiCasCall ==
  /\ fn.op = "design_guides_multi_cas"
  /\ fn.list # None /\ fn.value = None
  /\ pc[1] = "off"
  /\ fn.k < Len(fn.list[1])
  /\ LET cas_type == fn.list[1][fn.k + 1]
     IN /\ designers' = [designers EXCEPT ![1] = Some(new_designer(cas_type))]
        /\ inp' = [inp EXCEPT ![1] =
                     call("method", enum(cas_type), 1, fn.kwargs,
                          fn.responses[fn.k + 1], PathwayAbsent)]
  /\ pc' = [pc EXCEPT ![1] = "start"]
  /\ gene_info' = [gene_info EXCEPT ![1] = None]
  /\ pam_sites' = [pam_sites EXCEPT ![1] = <<>>]
  /\ idx' = [idx EXCEPT ![1] = 0]
  /\ guides' = [guides EXCEPT ![1] = <<>>]
  /\ result' = [result EXCEPT ![1] = None]
  /\ scored' = [scored EXCEPT ![1] = None]
  /\ trace' = [trace EXCEPT ![1] = <<>>]
  /\ UNCHANGED <<tables, run, first, fn>>

\* variant: placeholders returned for one Cas type replace the results
\* collected so far
MultiCasStore_reset ==
  /\ fn.op = "design_guides_multi_cas"
  /\ pc[1] = "done"
  /\ LET cas_type == fn.list[1][fn.k + 1]
         failed == \E j \in 1..Len(result[1][1]) : result[1][1][j].seq[1] =
                      "PLACEHOLDER_GUIDE_"
         kept == IF failed THEN {} ELSE DOMAIN fn.results
     IN fn' = [fn EXCEPT
                 !.results = [c \in kept \cup {cas_type} |->
                                IF c = cas_type THEN result[1][1]
                                ELSE fn.results[c]],
                 !.k = @ + 1]
  /\ pc' = [pc EXCEPT ![1] = "off"]
  /\ UNCHANGED <<tables, designers, inp, gene_info, pam_sites, idx, guides,
                 result, run, first, scored, trace>>

\* results[cas_type] = guides
MultiCasStore ==
  /\ fn.op = "design_guides_multi_cas"
  /\ pc[1] = "done"
  /\ LET cas_type == fn.list[1][fn.k + 1]
     IN fn' = [fn EXCEPT
                 !.results = [c \in DOMAIN fn.results \cup {cas_type} |->
                                IF c = cas_type THEN result[1][1]
                                ELSE fn.results[c]],
                 !.k = @ + 1]
  /\ pc' = [pc EXCEPT ![1] = "off"]
  /\ UNCHANGED <<tables, designers, inp, gene_info, pam_sites, idx, guides,
                 result, run, first, scored, trace>>

\* return results
MultiCasReturn ==
  /\ fn.op = "design_guides_multi_cas"
  /\ fn.list # None /\ fn.value = None
  /\ pc[1] = "off"
  /\ fn.k = Len(fn.list[1])
  /\ fn' = [fn EXCEPT !.value = Some(fn.results)]
  /\ UNCHANGED <<tables, designers, inp, pc, gene_info, pam_sites, idx, guides,
                 result, run, first, scored, trace>>

NextMulti ==
  \/ MultiCasEntry
  \/ MultiCasCall
  \/ FetchSequence(1)
  \/ ScanPam(1)
  \/ ProcessCandidate(1)
  \/ RankGuides(1)
  \/ TruncateAndReturn(1)
  \/ MultiCasStore
  \/ MultiCasReturn

SpecMulti == InitMulti /\ [][NextMulti]_vars

(***************************************************************************)
(* Properties.                                                             *)
(***************************************************************************)
Done(t) == pc[t] = "done"

\* the list call t returned
Returned(t) == result[t][1]

\* the placeholder records are recognised by the first piece of their seq
IsPlaceholder(r) == r.seq[1] = "PLACEHOLDER_GUIDE_"

\* call t returned guides designed from the sequence (possibly none)
ReturnedReal(t) ==
  Done(t) /\ \A k \in 1..Len(Returned(t)) : ~IsPlaceholder(Returned(t)[k])

\* exactly the three labelled placeholder records
ThreePlaceholders(rs, gene_symbol) ==
  /\ Len(rs) = 3
  /\ \A k \in 1..3 :
       /\ rs[k].seq = <<"PLACEHOLDER_GUIDE_", <<"1", "2", "3">>[k], "_FOR_",
                        gene_symbol>>
       /\ rs[k].safety_recommendation =
            "Sequence data unavailable - validate experimentally"
       /\ rs[k].doench_score = [num |-> 8 - k, den |-> 10]
       /\ rs[k].specificity_score = 900 - 100 * k
       /\ rs[k].severity_level = "MEDIUM"

\* the provider reported failure, or its sequence is empty or too short
ProviderUnusable(t) ==
  \/ inp[t].provider = None
  \/ inp[t].provider[1].sequence = <<>>
  \/ Len(inp[t].provider[1].sequence) < Self(t).pam_config.spacer_length + 10

\* an exon window of the response that is no (start, end, number) triple:
\* unpacking it raises while the scanner collects its search regions
ScanRaised(t) ==
  /\ ~ProviderUnusable(t)
  /\ \E k \in 1..Len(inp[t].provider[1].exons) :
       Len(inp[t].provider[1].exons[k]) # 3

\* the call returned before the loop over the PAM sites reached its end:
\* an exception left the loop
LoopRaised(t) == Done(t) /\ idx[t] < Len(pam_sites[t])

\* doench_score * specificity_score of a record, as the pair <<hi, lo>> of
\* its thousands and the rest; the records compared share their denominator
Product(r) ==
  LET n == r.doench_score.num
      s == r.specificity_score
      low == (n % 1000) * s
  IN <<(n \div 1000) * s + (low \div 1000), low % 1000>>

ProductLess(a, b) ==
  \/ Product(a)[1] < Product(b)[1]
  \/ Product(a)[1] = Product(b)[1] /\ Product(a)[2] < Product(b)[2]

\* where in pam_sites the scanner discovered the site of record r
SiteIndex(t, r) ==
  CHOOSE k \in 1..Len(pam_sites[t]) :
    pam_sites[t][k][1] = r.position[1] /\ pam_sites[t][k][3] = r.strand

\* C1: design_guides never raises; when the provider fails, when its sequence
\* is empty or shorter than spacer_length + 10, or when an exception occurs
\* while scanning or while a candidate is processed, the call returns exactly
\* the three placeholder records and no real guide.
FailureGivesPlaceholders ==
  \A t \in Threads :
    /\ Done(t) => result[t] # None
    /\ Done(t) /\ (ProviderUnusable(t) \/ ScanRaised(t) \/ LoopRaised(t))
         => ThreePlaceholders(Returned(t), inp[t].args.gene_symbol)

\* a candidate raised after earlier candidates had been processed, and the
\* call returned the placeholders
PlaceholdersAfterException ==
  \E t \in Threads :
    /\ LoopRaised(t) /\ idx[t] > 0
    /\ ThreePlaceholders(Returned(t), inp[t].args.gene_symbol)

\* C2: every returned list, real or placeholder, is ordered by non-increasing
\* doench_score * specificity_score, and guides with equal products keep the
\* order in which the scanner discovered their PAM sites.
RankedByProduct ==
  \A t \in Threads :
    Done(t) =>
      \A k \in 1..(Len(Returned(t)) - 1) :
        LET a == Returned(t)[k]
            b == Returned(t)[k + 1]
        IN /\ a.doench_score.den = b.doench_score.den
           /\ ~ProductLess(a, b)
           /\ Product(a) = Product(b) /\ ~IsPlaceholder(a)
                => SiteIndex(t, a) < SiteIndex(t, b)

\* a returned list of real guides with a tie and a strict descent
RankedWithTie ==
  \E t \in Threads :
    /\ ReturnedReal(t)
    /\ \E k \in 1..(Len(Returned(t)) - 1) :
         Product(Returned(t)[k]) = Product(Returned(t)[k + 1])
    /\ \E k \in 1..(Len(Returned(t)) - 1) :
         ProductLess(Returned(t)[k + 1], Returned(t)[k])

\* the longest run of one base in seq is at most n
RunsAtMost(seq, n) ==
  \A k \in 1..(Len(seq) - n) :
    \E j \in 1..n : seq[k + j] # seq[k]

\* C3: every guide of a non-placeholder result passed every filter: spacer of
\* exactly spacer_length bases, gc_min <= gc_content <= gc_max, no run of four
\* T when avoid_poly_t, longest single-base run <= max_repeats, and on-target
\* score >= min_doench_score.
ReturnedGuidesPassFilters ==
  \A t \in Threads :
    ReturnedReal(t) =>
      \A k \in 1..Len(Returned(t)) :
        LET r == Returned(t)[k]
            a == inp[t].args
            gc == Cardinality({j \in 1..Len(r.seq) : r.seq[j] \in {"G", "C"}})
        IN /\ Len(r.seq) = Self(t).pam_config.spacer_length
           /\ r.gc_content = [num |-> gc, den |-> Len(r.seq)]
           /\ a.gc_min * Len(r.seq) <= 100 * gc
           /\ 100 * gc <= a.gc_max * Len(r.seq)
           /\ a.avoid_poly_t =>
                ~\E j \in 1..(Len(r.seq) - 3) :
                    \A i \in 0..3 : r.seq[j + i] = "T"
           /\ RunsAtMost(r.seq, a.max_repeats)
           \* min_doench_score is in thousandths
           /\ r.doench_score.num
                >= a.min_doench_score * (r.doench_score.den \div 1000)

\* guides were returned under a narrow GC range with the poly-T filter on,
\* while other candidates of the same call were rejected
FiltersRejectedSome ==
  \E t \in Threads :
    /\ ReturnedReal(t) /\ Returned(t) # <<>>
    /\ inp[t].args.avoid_poly_t /\ inp[t].args.gc_max = 60
    /\ Len(guides[t]) < Len(pam_sites[t])

\* a cas_type string that names none of the five Cas types
Unsupported(cas_type) ==
  /\ cas_type.kind = "str"
  /\ cas_type.value \notin {"SpCas9", "spcas9", "SACAS9", "SaCas9", "sacas9",
                            "Cas12a", "cas12a", "Cas9-NG", "cas9-ng",
                            "xCas9", "xcas9"}

\* C4: a call of design_guides with an unsupported cas_type string fails at
\* entry: no designer is constructed for it and it designs no guides for a
\* substituted Cas type.
UnsupportedCasTypeFails ==
  \A t \in Threads :
    inp[t].via = "function" /\ Unsupported(inp[t].cas_type)
      => designers[inp[t].designer] = None /\ result[t] = None

\* C5: with a usable sequence, when the scanner finds no PAM site or every
\* candidate is rejected by a filter, design_guides returns the empty list and
\* not the placeholders.
NoSurvivorGivesEmptyList ==
  \A t \in Threads :
    /\ Done(t) /\ ~ProviderUnusable(t) /\ ~ScanRaised(t)
    /\ idx[t] = Len(pam_sites[t]) /\ guides[t] = <<>>
    => Returned(t) = <<>>

\* PAM sites were found and every candidate was rejected
AllCandidatesRejected ==
  \E t \in Threads :
    /\ Done(t) /\ ~ProviderUnusable(t) /\ ~ScanRaised(t)
    /\ Len(pam_sites[t]) > 0 /\ idx[t] = Len(pam_sites[t])
    /\ guides[t] = <<>> /\ Returned(t) = <<>>

\* C6: at most 20 guides are returned; they are the first 20 survivors in the
\* stable descending order of the product, and no survivor left out has a
\* strictly larger product than a returned one.
TopTwenty ==
  \A t \in Threads :
    /\ Done(t) => Len(Returned(t)) <= 20
    /\ ReturnedReal(t) =>
         /\ Len(Returned(t)) = Min(20, Len(guides[t]))
         /\ \A k \in 1..Len(Returned(t)) : Returned(t)[k] = to_dict(guides[t][k])
         /\ \A j \in 21..Len(guides[t]) : \A k \in 1..Len(Returned(t)) :
              ~ProductLess(Returned(t)[k], guides[t][j])

\* more than 20 candidates survived and 20 were returned
MoreThanTwentySurvivors ==
  \E t \in Threads :
    ReturnedReal(t) /\ Len(guides[t]) > 20 /\ Len(Returned(t)) = 20

InUnitInterval(q) == 0 <= q.num /\ q.num <= q.den

\* C7: every value the on-target scorer returns, and doench_score,
\* specificity_score and gc_content of every returned record, real or
\* placeholder, lie in [0, 1].
ScoresInUnitInterval ==
  \A t \in Threads :
    /\ scored[t] # None => InUnitInterval(scored[t][1])
    /\ Done(t) =>
         \A k \in 1..Len(Returned(t)) :
           /\ InUnitInterval(Returned(t)[k].doench_score)
           /\ 0 <= Returned(t)[k].specificity_score
           /\ Returned(t)[k].specificity_score <= SPEC
           /\ InUnitInterval(Returned(t)[k].gc_content)

\* the scorer returned 0 for a spacer whose raw score is negative
ScorerClampedAtZero ==
  \E t \in Threads :
    /\ scored[t] # None /\ scored[t][1].num = 0
    /\ pc[t] = "candidates"

ConstructedDesigner(c) ==
  [cas_type |-> c, pam_config |-> PAM_CONFIGS[c],
   compiled_forward_regex |-> PAM_CONFIGS[c].pattern,
   compiled_reverse_regex |-> PAM_CONFIGS[c].rc_pattern]

\* C9: concurrent calls, on one designer or on two, do not interfere: under
\* every interleaving each call returns what it returns when run alone, and
\* no call changes the designer's cas_type or pam_config or a module table.
ConcurrentCallsIndependent ==
  /\ tables = ModuleTables
  /\ \A t \in Threads :
       LET c == convert_cas_type(inp[t].cas_type)
       IN /\ designers[inp[t].designer] # None
               => Self(t) = ConstructedDesigner(c)
          /\ Done(t) =>
               Returned(t) = design_guides_result(ConstructedDesigner(c), inp[t])

\* two calls with different parameters ran on one designer and both returned
\* guides
SharedDesignerBothReturned ==
  /\ inp[1].designer = inp[2].designer
  /\ inp[1].args # inp[2].args
  /\ ReturnedReal(1) /\ Returned(1) # <<>>
  /\ ReturnedReal(2) /\ Returned(2) # <<>>

\* the number of off-targets of the list with the given severity
Tagged(off_targets, sev) ==
  Cardinality({k \in 1..Len(off_targets) : off_targets[k].severity = sev})

\* the first matching tier of the decision order, for the arguments in fn
DecisionTier ==
  LET critical_ot == Tagged(fn.off_targets, "CRITICAL")
      high_ot == Tagged(fn.off_targets, "HIGH")
      above_07 == 10 * fn.doench_score.num > 7 * fn.doench_score.den
  IN IF fn.has_pathway_conflict /\ critical_ot > 0 THEN "CRITICAL"
     ELSE IF critical_ot > 2 \/ (high_ot > 3 /\ above_07) THEN "CRITICAL"
     ELSE IF fn.has_pathway_conflict \/ critical_ot > 0 \/ high_ot > 2
       THEN "HIGH"
     ELSE IF fn.off_target_count > 5 \/ high_ot > 0 THEN "MEDIUM"
     ELSE "LOW"

Classified == fn.op = "classify_severity" /\ fn.value # None

\* C10: _classify_severity returns the first matching tier of: CRITICAL if
\* pathway_conflict and critical_ot > 0; CRITICAL if critical_ot > 2 or
\* (high_ot > 3 and on_target_score > 0.7); HIGH if pathway_conflict or
\* critical_ot > 0 or high_ot > 2; MEDIUM if off_target_count > 5 or
\* high_ot > 0; otherwise LOW.  An empty list without pathway conflict and
\* with an off-target count of at most 5 gives LOW; a pathway conflict with
\* one CRITICAL off-target gives CRITICAL.
SeverityDecisionOrder ==
  Classified =>
    /\ fn.value = Some(DecisionTier)
    /\ fn.off_targets = <<>> /\ ~fn.has_pathway_conflict
         /\ fn.off_target_count <= 5
         => fn.value = Some("LOW")
    /\ fn.has_pathway_conflict /\ Tagged(fn.off_targets, "CRITICAL") = 1
         => fn.value = Some("CRITICAL")

\* C10 as stated: the same decision order, and an empty off-target list
\* without pathway conflict gives LOW whatever the off-target count is.
SeverityDecisionOrderAsStated ==
  Classified =>
    /\ fn.value = Some(DecisionTier)
    /\ fn.off_targets = <<>> /\ ~fn.has_pathway_conflict
         => fn.value = Some("LOW")
    /\ fn.has_pathway_conflict /\ Tagged(fn.off_targets, "CRITICAL") = 1
         => fn.value = Some("CRITICAL")

\* a pathway conflict with exactly one CRITICAL off-target was classified
\* CRITICAL
ConflictWithOneCritical ==
  /\ fn.op = "classify_severity"
  /\ fn.has_pathway_conflict
  /\ fn.off_targets = << [severity |-> "CRITICAL"] >>
  /\ fn.value = Some("CRITICAL")

\* the helper named op has returned
Applied(op) == fn.op = op /\ fn.value # None

\* 1.0 - min(0.4, 0.03 n) - min(0.5, 0.15 #CRITICAL + 0.08 #HIGH
\* + 0.03 #MEDIUM) + (pam_quality - 0.5) * 0.1, in thousandths
SpecificityFormula(off_targets, pam_quality) ==
  LET n == Len(off_targets)
      count_term == IF 30 * n < 400 THEN 30 * n ELSE 400
      weighted == 150 * Tagged(off_targets, "CRITICAL")
                  + 80 * Tagged(off_targets, "HIGH")
                  + 30 * Tagged(off_targets, "MEDIUM")
      severity_term == IF weighted < 500 THEN weighted ELSE 500
  IN 1000 - count_term - severity_term + (pam_quality - 50)

\* C11: the specificity aggregator returns exactly 1.0 for an empty
\* off-target list; for a non-empty list of n off-targets it returns
\* 1.0 - min(0.4, 0.03 n) - min(0.5, 0.15 #CRITICAL + 0.08 #HIGH
\* + 0.03 #MEDIUM) + (pam_quality - 0.5) * 0.1 clamped to [0.0, 1.0];
\* LOW off-targets add to n only.
SpecificityAggregate ==
  Applied("calculate_specificity_score") =>
    LET x == SpecificityFormula(fn.off_targets, fn.pam_quality)
    IN /\ fn.off_targets = <<>> => fn.value = Some(1000)
       /\ fn.off_targets # <<>> =>
            fn.value = Some(IF x < 0 THEN 0 ELSE IF x > 1000 THEN 1000 ELSE x)

\* a list long enough for both caps to bind, LOW off-targets included,
\* was aggregated
SpecificityBothCapsBind ==
  /\ Applied("calculate_specificity_score")
  /\ Len(fn.off_targets) > 13
  /\ Tagged(fn.off_targets, "CRITICAL") >= MaxOffTargetList
  /\ Tagged(fn.off_targets, "LOW") > 0
  /\ fn.pam_quality = 30
  /\ fn.value = Some(80)

\* 10 * (1 - penalty) of a position of the penalty table
StatedFactor(pos) ==
  IF pos >= 17 THEN 1 ELSE IF pos >= 13 THEN 4 ELSE IF pos >= 8 THEN 6 ELSE 8

\* the product of the stated factors of positions[k..], in units of 10^-6
\* when unit is 10^6 divided by ten for each position
RECURSIVE StatedProduct(_, _, _)
StatedProduct(positions, k, unit) ==
  IF k > Len(positions) THEN unit
  ELSE StatedFactor(positions[k]) * StatedProduct(positions, k + 1, unit)

TenTo(n) == IF n = 0 THEN 1 ELSE IF n = 1 THEN 10 ELSE IF n = 2 THEN 100
            ELSE IF n = 3 THEN 1000 ELSE IF n = 4 THEN 10000 ELSE 100000

InTable(positions) == \A k \in 1..Len(positions) : positions[k] \in 1..20

CfdStrictlyDecreasing ==
  Applied("calculate_cfd_score") /\ fn.added # None =>
    \/ fn.value[1] < fn.smaller[1]
    \/ fn.value = Some(0) /\ fn.smaller = Some(0)

\* the stated tag of a score in units of 10^-8 and a number of mismatches
StatedTag(score, mismatches) ==
  IF score > 50000000 /\ mismatches <= 2 THEN "CRITICAL"
  ELSE IF score > 30000000 \/ mismatches <= 2 THEN "HIGH"
  ELSE IF score > 10000000 \/ mismatches <= 3 THEN "MEDIUM"
  ELSE "LOW"

\* CFD of the mismatch positions of an off-target, in units of 10^-6
RawCfd(ot) ==
  StatedProduct(ot.mismatch_positions, 1,
                1000000 \div TenTo(Len(ot.mismatch_positions)))

\* C14: an off-target is tagged CRITICAL if score > 0.5 and mismatches <= 2;
\* else HIGH if score > 0.3 or mismatches <= 2; else MEDIUM if score > 0.1 or
\* mismatches <= 3; else LOW.  The score that tags a kept candidate of the
\* predictor is its final score CFD * pam_quality, not its raw CFD.
OffTargetTagOrder ==
  /\ Applied("classify_off_target_severity") =>
       fn.value = Some(StatedTag(fn.cfd_score, fn.mismatches))
  /\ Applied("predict_off_targets_cfd") =>
       \A k \in 1..Len(fn.value[1]) :
         LET ot == fn.value[1][k]
         IN /\ ot.cfd_score = RawCfd(ot) * ot.pam_quality
            /\ ot.severity = StatedTag(RawCfd(ot) * ot.pam_quality,
                                       ot.mismatches)

\* the predictor kept a candidate with one mismatch whose raw CFD 0.8 is
\* above 0.5 and whose final score 0.24 is not: it is tagged HIGH
TaggedOnFinalScore ==
  /\ Applied("predict_off_targets_cfd")
  /\ \E k \in 1..Len(fn.value[1]) :
       LET ot == fn.value[1][k]
       IN /\ ot.mismatches = 1
          /\ RawCfd(ot) = 800000
          /\ ot.cfd_score = 24000000
          /\ ot.severity = "HIGH"

\* the string is empty or holds a character that is no nucleotide code
NoPam(x) == x = <<>> \/ \E k \in 1..Len(x) : x[k] \in {"X", "-"}

\* C15: pam_quality is total: for any string, the empty string and strings
\* of non-nucleotide characters included, it returns a value of
\* {1.0, 0.9, 0.85, 0.8, 0.3, 0.2, 0.1}; AGG gives 1.0, AAG gives 0.3 and an
\* unrecognised string such as XXX gives 0.1.
PamQualityTotal ==
  Applied("get_pam_quality") =>
    /\ fn.value[1] \in {100, 90, 85, 80, 30, 20, 10}
    /\ fn.pam_seq = <<"A", "G", "G">> => fn.value = Some(100)
    /\ fn.pam_seq = <<"A", "A", "G">> => fn.value = Some(30)
    /\ fn.pam_seq \in {<<>>, <<"X", "X", "X">>, <<"-", "X">>, <<"T", "A", "T">>}
         => fn.value = Some(10)

\* the quality of the empty string and of a string of non-nucleotide
\* characters was asked for
PamQualityOfNoPam ==
  /\ Applied("get_pam_quality")
  /\ NoPam(fn.pam_seq)
  /\ fn.pam_seq \in {<<>>, <<"X", "X", "X">>}
  /\ fn.value = Some(10)

\* a score that is 0.0 or 1.0
AtBound(score) == score.num = 0 \/ score.num = score.den

\* C16: for a fixed spacer and gc_optimal the on-target score does not
\* decrease when the PAM is replaced by one of higher pam_quality, and it is
\* strictly higher when neither score is clamped at 0.0 or 1.0; the spacer
\* GAGTCCGAGCAGAAGAAGAA scores strictly higher with AGG than with AAG.
OnTargetMonotoneInPam ==
  Applied("calculate_doench_2016") /\ fn.lower # None =>
    LET high == fn.value[1]
        low == fn.lower[1].value
    IN /\ high.den = low.den
       /\ high.num >= low.num
       /\ ~AtBound(high) /\ ~AtBound(low) => high.num > low.num
       /\ fn.guide_seq = ScenarioSpacer /\ fn.pam_seq = <<"A","G","G">>
            /\ fn.lower[1].pam_seq = <<"A","A","G">>
            => high.num > low.num

\* the scenario spacer was scored with AAG and then with AGG, and neither
\* score is at a bound
ScenarioSpacerRescored ==
  /\ Applied("calculate_doench_2016")
  /\ fn.lower # None
  /\ fn.guide_seq = ScenarioSpacer
  /\ fn.gc_optimal = 55
  /\ fn.pam_seq = <<"A","G","G">>
  /\ fn.lower[1].pam_seq = <<"A","A","G">>
  /\ ~AtBound(fn.value[1]) /\ ~AtBound(fn.lower[1].value)

\* the stated pairs of codes, each with its partner
StatedPartner ==
  "A" :> "T" @@ "T" :> "A" @@ "C" :> "G" @@ "G" :> "C" @@ "N" :> "N" @@
  "R" :> "Y" @@ "Y" :> "R" @@ "S" :> "S" @@ "W" :> "W" @@ "K" :> "M" @@
  "M" :> "K" @@ "B" :> "V" @@ "V" :> "B" @@ "D" :> "H" @@ "H" :> "D"

\* C17: reverse_complement(reverse_complement(s)) = s for every sequence s
\* over A, T, G, C, and the complement table is an involution on every code
\* it maps: A-T, C-G, N-N, R-Y, S-S, W-W, K-M, B-V, D-H.
ReverseComplementInvolution ==
  /\ Applied("reverse_complement") /\ fn.again # None => fn.again = Some(fn.seq)
  /\ Applied("reverse_complement") /\ Len(fn.seq) = 1 =>
       /\ fn.seq[1] \in DOMAIN StatedPartner
       /\ fn.value = Some(<<StatedPartner[fn.seq[1]]>>)
  /\ Applied("reverse_complement") /\ Len(fn.seq) > 1 =>
       \A k \in 1..Len(fn.seq) :
         fn.value[1][k] = StatedPartner[fn.seq[Len(fn.seq) + 1 - k]]

\* the scenario spacer was reverse-complemented twice, and its reverse
\* complement is another sequence
SpacerComplementedTwice ==
  /\ Applied("reverse_complement")
  /\ fn.seq = ScenarioSpacer
  /\ fn.value # Some(fn.seq)
  /\ fn.again = Some(fn.seq)

\* the Cas types design_guides_multi_cas was asked for
Requested ==
  IF fn.cas_types = None
    THEN {"SpCas9", "SaCas9", "Cas12a", "Cas9-NG", "xCas9"}
  ELSE {fn.cas_types[1][k] : k \in 1..Len(fn.cas_types[1])}

\* the position of the call made for Cas type c (the last one, when c was
\* asked for twice)
CallOf(c) ==
  LET l == IF fn.cas_types = None THEN CasTypeList ELSE fn.cas_types[1]
  IN CHOOSE k \in 1..Len(l) :
       l[k] = c /\ \A j \in (k + 1)..Len(l) : l[j] # c

\* what design_guides returns for Cas type c, called with the arguments of
\* the multi-Cas call and given the provider's response to that call
DesignedFor(c) ==
  design_guides_result(ConstructedDesigner(c),
                       call("method", enum(c), 1, fn.kwargs,
                            fn.responses[CallOf(c)], PathwayAbsent))

MultiReturned == fn.op = "design_guides_multi_cas" /\ fn.value # None

\* C18: design_guides_multi_cas returns a mapping with exactly one entry per
\* requested Cas type, all five when cas_types is omitted; each entry holds
\* the list design_guides returns for that Cas type, and a failure for one
\* Cas type leaves the entries of the others unaffected.
MultiCasOneEntryEach ==
  MultiReturned =>
    /\ DOMAIN fn.value[1] = Requested
    /\ \A c \in Requested : fn.value[1][c] = DesignedFor(c)

\* all five Cas types were designed for, the provider failed for one of
\* them, which got the placeholders, and another one got guides
MultiCasOneFailure ==
  /\ MultiReturned
  /\ fn.cas_types = None
  /\ \E c \in Requested :
       /\ fn.responses[CallOf(c)] = None
       /\ ThreePlaceholders(fn.value[1][c], fn.kwargs.gene_symbol)
  /\ \E c \in Requested :
       /\ CallOf(c) < Len(CasTypeList)
       /\ fn.responses[CallOf(c) + 1] = None
       /\ fn.value[1][c] # <<>>
       /\ ~IsPlaceholder(fn.value[1][c][1])

\* the pathway checker of call t is absent or fails
PathwayUnavailable(t) == inp[t].pathway.state \in {"absent", "fails"}

\* C19: when the pathway checker is absent or fails, every guide is processed
\* as having no conflict: its pathway_conflict is false and its list of
\* conflicting genes is empty, it is still scored and classified, and the
\* call returns what it returns with a checker that reports no neighbour, so
\* no placeholder is returned because of the checker.
PathwayUnavailableNoConflict ==
  \A t \in Threads :
    PathwayUnavailable(t) /\ pc[t] # "off" =>
      /\ \A k \in 1..Len(guides[t]) :
           /\ ~guides[t][k].pathway_conflict
           /\ guides[t][k].pathway_conflict_genes = <<>>
           /\ guides[t][k].severity_level \in SeverityTags
           /\ guides[t][k].specificity_score \in 0..1000
           /\ guides[t][k].doench_score.num \in 0..guides[t][k].doench_score.den
      /\ Done(t) =>
           /\ \A k \in 1..Len(Returned(t)) : ~Returned(t)[k].pathway_conflict
           /\ Returned(t) =
                design_guides_result(Self(t),
                                     [inp[t] EXCEPT !.pathway = PathwayOk(<<>>)])

\* a call whose pathway checker fails returned guides designed from the
\* sequence, one of them with an off-target inside a named gene
GuidesWithoutPathwayChecker ==
  \E t \in Threads :
    /\ inp[t].pathway.state = "fails"
    /\ ReturnedReal(t) /\ Returned(t) # <<>>
    /\ \E k \in 1..Len(guides[t]) :
         \E j \in 1..Len(guides[t][k].off_targets) :
           guides[t][k].off_targets[j].gene_name # None

\* C20: every off-target returned by the predictor, for every spacer,
\* max_mismatches and max_results, has a final score CFD * pam_quality of at
\* least 0.05: candidates whose final score is below 0.05 are discarded.
FinalScoreAtLeastThreshold ==
  Applied("predict_off_targets_cfd") =>
    \A k \in 1..Len(fn.value[1]) : fn.value[1][k].cfd_score >= 5000000

\* the quality the suffix rules give, in priority order, in hundredths
SuffixQuality(x) ==
  LET n == Len(x)
      ends(a, b) == n >= 2 /\ x[n - 1] = a /\ x[n] = b
  IN IF ends("G", "G") THEN 100
     ELSE IF ends("A", "G") THEN 30
     ELSE IF ends("G", "A") THEN 20
     ELSE 10

\* C21: for a PAM string that is no exact entry of the quality table,
\* pam_quality applies the suffix rules in priority order to any such string:
\* GG gives 1.0, otherwise AG gives 0.3, otherwise GA gives 0.2, otherwise
\* 0.1; the two-base PAMs GG, AG and GA of Cas9-NG and xCas9 included.
SuffixRulesForAnyString ==
  Applied("get_pam_quality")
    /\ upper(fn.pam_seq) \notin DOMAIN PAM_QUALITY_SCORES
    => fn.value = Some(SuffixQuality(upper(fn.pam_seq)))

\* the spacer of a site, read together with its reported PAM, is one
\* contiguous stretch of the site's strand
Contiguous(self, sequence, site, spacer) ==
  LET pos == site[1]
      pam == site[2]
      n == self.pam_config.spacer_length
      is_5prime_pam == self.pam_config.pam_position = "5prime"
  IN IF site[3] = "+"
       THEN IF is_5prime_pam
              THEN /\ pos + Len(pam) + n <= Len(sequence)
                   /\ pam \o spacer = Slice(sequence, pos, pos + Len(pam) + n)
              ELSE /\ pos - n >= 0
                   /\ spacer \o pam = Slice(sequence, pos - n, pos + Len(pam))
       ELSE IF is_5prime_pam
              THEN /\ pos - n >= 0
                   /\ pam \o spacer =
                        reverse_complement(Slice(sequence, pos - n,
                                                 pos + Len(pam)))
              ELSE /\ pos + Len(pam) + n <= Len(sequence)
                   /\ spacer \o pam =
                        reverse_complement(Slice(sequence, pos,
                                                 pos + Len(pam) + n))

\* C22: for each Cas type and every site the PAM scanner returns, the
\* extractor returns a spacer of exactly spacer_length bases immediately
\* adjacent to the matched PAM on that strand, without gap or overlap (spacer
\* then PAM for 3prime-PAM nucleases, PAM then spacer for Cas12a); the
\* scanner returns no site for which the extractor returns the empty string.
SpacerAdjacentToPam ==
  \A t \in Threads :
    pc[t] \in {"candidates", "truncating", "done"} /\ gene_info[t] # None =>
      \A k \in 1..Len(pam_sites[t]) :
        LET site == pam_sites[t][k]
            sequence == gene_info[t][1].sequence
            spacer == extract_guide_sequence(Self(t), sequence, site[1], site[3])
        IN /\ spacer # <<>>
           /\ Len(spacer) = Self(t).pam_config.spacer_length
           /\ Contiguous(Self(t), sequence, site, spacer)

\* the spacer holds a run of at least 4 consecutive T
HasRunOfFourT(spacer) ==
  \E j \in 1..(Len(spacer) - 3) : \A d \in 0..3 : spacer[j + d] = "T"

\* C23: the has_poly_t flag of every real guide design_guides returns is true
\* if and only if the guide's spacer contains a run of at least 4 consecutive
\* T, for both values of avoid_poly_t.
PolyTFlagIsExact ==
  \A t \in Threads :
    ReturnedReal(t) =>
      \A k \in 1..Len(Returned(t)) :
        Returned(t)[k].has_poly_t <=> HasRunOfFourT(Returned(t)[k].seq)

\* the windows the scanner is stated to search, as (start, end, exon number)
StatedWindows(sequence, exons, target_exons) ==
  IF exons = <<>> THEN {<<0, Len(sequence), 1>>}
  ELSE IF target_exons # None
    THEN {exons[k] : k \in {j \in 1..Len(exons) :
                              \E i \in 1..Len(target_exons) :
                                exons[j][3] = target_exons[i]}}
  ELSE {exons[k] : k \in 1..Min(3, Len(exons))}

\* the scan of call t is over and returned sites
Scanned(t) ==
  /\ pc[t] \in {"candidates", "truncating", "done"}
  /\ gene_info[t] # None
  /\ pam_sites[t] # <<>>

\* every site lies inside a stated window and carries its exon number
SitesInsideWindows(t) ==
  \A k \in 1..Len(pam_sites[t]) :
    LET site == pam_sites[t][k]
    IN \E w \in StatedWindows(gene_info[t][1].sequence,
                              gene_info[t][1].exons,
                              inp[t].args.target_exons) :
         /\ w[1] <= site[1] /\ site[1] + Len(site[2]) <= w[2]
         /\ site[4] = w[3]

\* C24: the PAM scanner searches the exon windows whose number is in
\* target_exons when target_exons is given, the first three exon windows when
\* it is omitted, and the whole sequence as one window when there is no exon
\* structure; every returned site lies inside a searched window and carries
\* its exon number, so with target_exons given no returned site has an exon
\* number outside target_exons.
ScannerSearchesStatedWindows ==
  \A t \in Threads :
    Scanned(t) =>
      /\ SitesInsideWindows(t)
      /\ inp[t].args.target_exons # None =>
           \A k \in 1..Len(pam_sites[t]) :
             \E i \in 1..Len(inp[t].args.target_exons) :
               pam_sites[t][k][4] = inp[t].args.target_exons[i]

\* the stated quality of the PAM family of a Cas type, in hundredths
FamilyQuality(cas_type) ==
  CASE cas_type = "SpCas9" -> 100
    [] cas_type = "SaCas9" -> 90
    [] cas_type = "Cas12a" -> 85

\* C25: for SpCas9, SaCas9 and Cas12a every concrete PAM sequence the scanner
\* reports, on either strand, is given the quality of its family by
\* pam_quality: 1.0 for the NGG PAMs of SpCas9, 0.9 for the NNGRRT PAMs of
\* SaCas9, 0.85 for the TTTV PAMs of Cas12a.
ReportedPamHasFamilyQuality ==
  \A t \in Threads :
    Scanned(t) /\ Self(t).cas_type \in {"SpCas9", "SaCas9", "Cas12a"} =>
      \A k \in 1..Len(pam_sites[t]) :
        get_pam_quality(pam_sites[t][k][2]) = FamilyQuality(Self(t).cas_type)

\* C26: every real guide design_guides produces with max_off_targets >= 1 has
\* severity_level HIGH or CRITICAL, never LOW or MEDIUM, and a
\* specificity_score strictly below 1.0: the off-target generator always
\* yields a CRITICAL off-target at index 0 (one mismatch, final score 0.8).
RealGuidesAtLeastHigh ==
  \A t \in Threads :
    pc[t] # "off" /\ inp[t].args.max_off_targets >= 1 =>
      /\ \A k \in 1..Len(guides[t]) :
           LET g == guides[t][k]
           IN /\ g.severity_level \in {"HIGH", "CRITICAL"}
              /\ g.specificity_score < 1000
              /\ g.off_target_count >= 1
              /\ inp[t].args.include_off_target_details =>
                   /\ g.off_targets # <<>>
                   /\ g.off_targets[1].severity = "CRITICAL"
                   /\ g.off_targets[1].mismatches = 1
                   /\ g.off_targets[1].cfd_score = 80000000
      /\ ReturnedReal(t) =>
           \A k \in 1..Len(Returned(t)) :
             /\ Returned(t)[k].severity_level \in {"HIGH", "CRITICAL"}
             /\ Returned(t)[k].specificity_score < 1000

\* a call with max_off_targets = 1 returned guides, one of them HIGH on the
\* strength of its single off-target
HighWithOneOffTarget ==
  \E t \in Threads :
    /\ inp[t].args.max_off_targets = 1
    /\ ReturnedReal(t)
    /\ \E k \in 1..Len(Returned(t)) :
         /\ Returned(t)[k].severity_level = "HIGH"
         /\ Returned(t)[k].off_target_count = 1

\* the stage of the orchestrator's state machine a call of the loop body
\* belongs to: 1 extracting, 2 filtering, 3 scoring-on-target,
\* 4 scoring-off-target, 5 aggregating, 6 annotating
StageOf(name) ==
  CASE name = "_extract_guide_sequence" -> 1
    [] name \in {"_calculate_gc_content", "_check_poly_t",
                 "_count_max_repeats"} -> 2
    [] name \in {"_calculate_doench_2016", "_get_pam_quality"} -> 3
    [] name = "_predict_off_targets_cfd" -> 4
    [] name = "_calculate_specificity_score" -> 5
    [] name \in {"_check_pathway_conflicts", "_determine_exon_position",
                 "_calculate_cds_frame", "_classify_severity",
                 "_get_safety_recommendation", "GuideRNA"} -> 6

FilterKinds == {"bounds", "gc", "poly_t", "repeats", "doench"}

AfterFilters == {"_predict_off_targets_cfd", "_calculate_specificity_score",
                 "_check_pathway_conflicts", "_classify_severity"}

Called(e) == {e.calls[j] : j \in 1..Len(e.calls)}

StepCount(t, name) ==
  Cardinality({k \in 1..Len(trace[t]) : trace[t][k].step = name})

\* C27: within one design_guides call the stages run in the stated order
\* (fetching-sequence, scanning-pam, the candidates one by one, ranking,
\* truncating, done; inside a candidate extracting, filtering,
\* scoring-on-target, scoring-off-target, aggregating, annotating); a
\* candidate rejected by a filter never reaches off-target prediction,
\* specificity aggregation, the pathway-conflict check or severity
\* classification; ranking starts only after every candidate has been
\* processed, truncation only after ranking, and the gene provider is
\* queried exactly once.
StagesInOrder ==
  \A t \in Threads :
    LET tr == trace[t]
        n == Len(tr)
    IN /\ \A k \in 1..n :
            LET e == tr[k]
            IN /\ (e.step = "_fetch_gene_info_with_exons") <=> (k = 1)
               /\ e.step = "_find_pam_sites_both_strands" => k = 2
               /\ e.step = "for" =>
                    /\ k >= 3 /\ k - 2 <= Len(pam_sites[t])
                    /\ tr[k - 1].step \in {"_find_pam_sites_both_strands", "for"}
                    /\ \A i, j \in 1..Len(e.calls) :
                         i < j => StageOf(e.calls[i]) <= StageOf(e.calls[j])
                    /\ e.kind \in FilterKinds => Called(e) \cap AfterFilters = {}
                    /\ e.kind = "guide" => AfterFilters \subseteq Called(e)
               /\ e.step = "guides.sort" =>
                    /\ k = Len(pam_sites[t]) + 3
                    /\ \A j \in 3..(k - 1) : tr[j].step = "for"
               /\ e.step = "guides[:20]" =>
                    /\ k = n /\ k > 1 /\ tr[k - 1].step = "guides.sort"
               /\ e.step = "_generate_fallback_guides" => k = n
       /\ pc[t] \in {"scanning", "candidates", "truncating", "done"} =>
            StepCount(t, "_fetch_gene_info_with_exons") = 1
       /\ pc[t] = "candidates" =>
            /\ n = idx[t] + 2
            /\ StepCount(t, "guides.sort") = 0
       /\ pc[t] = "truncating" => tr[n].step = "guides.sort"
       /\ Done(t) =>
            tr[n].step \in {"guides[:20]", "_generate_fallback_guides"}
       /\ ReturnedReal(t) =>
            /\ tr[n].step = "guides[:20]"
            /\ Cardinality({k \in 1..n : tr[k].step = "for"
                                         /\ tr[k].kind = "guide"})
                 = Len(guides[t])

\* a call has returned guides after a loop in which one candidate was
\* rejected by the minimum on-target score, one by an earlier filter, and
\* one went through every stage
RejectedAndSurvivingCandidates ==
  \E t \in Threads :
    /\ ReturnedReal(t)
    /\ \E i, j, k \in 1..Len(trace[t]) :
         /\ trace[t][i].step = "for" /\ trace[t][i].kind = "doench"
         /\ trace[t][j].step = "for"
         /\ trace[t][j].kind \in {"bounds", "gc", "poly_t", "repeats"}
         /\ trace[t][k].step = "for" /\ trace[t][k].kind = "guide"

\* C28: the list returned by predict_off_targets is sorted by non-increasing
\* final score (cfd_score) and has at most max_results entries, for every
\* spacer, max_mismatches and max_results.
OffTargetsSortedAndCapped ==
  Applied("predict_off_targets_cfd") =>
    LET off_targets == fn.value[1]
    IN /\ Len(off_targets) <= fn.max_results
       /\ \A k \in 1..(Len(off_targets) - 1) :
            off_targets[k].cfd_score >= off_targets[k + 1].cfd_score

\* a list of exactly max_results = 12 off-targets whose scores are not all
\* equal was returned
TwelveOffTargetsRanked ==
  /\ Applied("predict_off_targets_cfd")
  /\ fn.max_results = 12
  /\ Len(fn.value[1]) = 12
  /\ fn.value[1][1].cfd_score > fn.value[1][12].cfd_score

\* the spacer lengths of the supported Cas types
SpacerLengths ==
  {tables.PAM_CONFIGS[c].spacer_length : c \in DOMAIN tables.PAM_CONFIGS}

StrictlyIncreasing(l) == \A k \in 1..(Len(l) - 1) : l[k] < l[k + 1]

\* C29: for every off-target returned by predict_off_targets, for any spacer
\* of a supported Cas type and any max_mismatches, mismatch_positions is a
\* strictly increasing list of integers within [1, spacer_length] and its
\* length equals the off-target's mismatches field.
MismatchPositionsWellFormed ==
  Applied("predict_off_targets_cfd")
  /\ Len(fn.guide_seq) \in SpacerLengths =>
    \A k \in 1..Len(fn.value[1]) :
      LET ot == fn.value[1][k]
      IN /\ StrictlyIncreasing(ot.mismatch_positions)
         /\ \A j \in 1..Len(ot.mismatch_positions) :
              ot.mismatch_positions[j] \in 1..Len(fn.guide_seq)
         /\ Len(ot.mismatch_positions) = ot.mismatches

\* with max_mismatches = 5, where the loop asks for up to five mismatches,
\* the off-targets returned for a 21-base spacer include one with three
\* mismatches and none with more
ThreeMismatchesOfFiveAllowed ==
  /\ Applied("predict_off_targets_cfd")
  /\ fn.max_mismatches = 5 /\ fn.max_results = 50
  /\ Len(fn.guide_seq) = 21
  /\ \E k \in 1..Len(fn.value[1]) : fn.value[1][k].mismatches = 3
  /\ \A k \in 1..Len(fn.value[1]) : fn.value[1][k].mismatches <= 3

\* the 1-based positions at which two sequences of one length differ
Differences(a, b) == {k \in 1..Len(a) : a[k] # b[k]}

\* C30: for every off-target returned by predict_off_targets for a spacer of
\* at least 20 bases over {A,C,G,T}, the off-target sequence has the spacer's
\* length and differs from the spacer at exactly the positions listed in
\* mismatch_positions and at no other position (its Hamming distance to the
\* spacer equals its mismatch count).
OffTargetDiffersAtListedPositions ==
  Applied("predict_off_targets_cfd")
  /\ Len(fn.guide_seq) >= 20
  /\ (\A k \in 1..Len(fn.guide_seq) : fn.guide_seq[k] \in {"A", "C", "G", "T"}) =>
    \A k \in 1..Len(fn.value[1]) :
      LET ot == fn.value[1][k]
      IN /\ Len(ot.sequence) = Len(fn.guide_seq)
         /\ Differences(ot.sequence, fn.guide_seq)
              = {ot.mismatch_positions[j] : j \in 1..Len(ot.mismatch_positions)}
         /\ Cardinality(Differences(ot.sequence, fn.guide_seq)) = ot.mismatches

\* an off-target of the 23-base spacer with three mismatches, three bases
\* away from the spacer
ThreeBasesAway ==
  /\ Applied("predict_off_targets_cfd")
  /\ Len(fn.guide_seq) = 23
  /\ \E k \in 1..Len(fn.value[1]) :
       /\ fn.value[1][k].mismatches = 3
       /\ Cardinality(Differences(fn.value[1][k].sequence, fn.guide_seq)) = 3

=============================================================================
